---- MODULE Spec2Model ----
(***************************************************************************)
(* State-machine model of the VEI router runtime: the tickets twin, the    *)
(* connector runtime with its policy gate, the event bus, the list         *)
(* pagination helpers and the ERP payment ledger.  Each subsystem has its  *)
(* own specification over the shared variables; the variables of the other *)
(* subsystems rest at their constructed value.                             *)
(***************************************************************************)
EXTENDS Integers, Sequences, FiniteSets, TLC

VARIABLES
    tickets,        \* TicketsSim.tickets: ticket number -> [status, history]
    metadata,       \* TicketsSim.metadata: ticket number -> [priority, comments, created_ms, updated_ms]
    ticket_seq,     \* TicketsSim._ticket_seq
    tk_clock_ms,    \* TicketsSim._clock_ms, as an offset from 1_700_000_200_000
    tk_last,        \* outcome of the last tickets operation
    c_mode,         \* ConnectorRuntime.mode
    c_gate,         \* DefaultPolicyGate: [allow_safe, allow_risky, blocked]
    request_seq,    \* ConnectorRuntime._request_seq
    receipts,       \* ConnectorRuntime._receipts
    memo,           \* ReplayConnectorAdapter._memo
    trace,          \* the router's trace of calls
    sessB,          \* a second, independent session given the same calls
    c_last,         \* the last connector invocation and the state before it
    bus_clock_ms,   \* EventBus.clock_ms
    bus_seq,        \* EventBus sequence counter
    bus_heap,       \* EventBus pending events
    bus_log,        \* events delivered so far, each with the tick that delivered it
    bus_ticks,      \* number of tick calls so far
    bus_last,       \* the last bus call, and for a tick the call before it
    pg_req,         \* the list request being walked: operation, rows, limit, offset
    pg_cursor,      \* the cursor the walk passes next
    pg_seen,        \* the rows the walk has been given so far
    pg_done,        \* the walk got a page without next_cursor
    pg_page,        \* the last page of the walk
    pg_probe,       \* the last list call made with a caller-written cursor
    pg_clock,       \* TicketsSim._clock_ms of the listed twin
    erp_pos,        \* ErpSim.pos
    erp_invoices,   \* ErpSim.invoices
    erp_po_seq,     \* ErpSim._po_seq
    erp_inv_seq,    \* ErpSim._inv_seq
    erp_faulty,     \* ErpSim.error_rate > 0
    erp_applied,    \* per invoice, the number of payments applied to it
    erp_last,       \* the last ERP call and the invoice before it
    erp_receipts,   \* ErpSim.receipts
    erp_rcpt_seq,   \* ErpSim._rcpt_seq
    erp_po_last,    \* the last call, when receive_goods or match_three_way
    okta_users,     \* OktaSim.users: status and groups of each user
    okta_groups,    \* OktaSim.groups: members of each group
    okta_reset_seq, \* OktaSim._reset_seq
    okta_last,      \* the last okta call and the user's status before it
    cal_events,     \* CalendarSim.events with their metadata and responses
    cal_clock_ms,   \* CalendarSim._clock_ms, counted from its start value
    cal_event_seq,  \* CalendarSim._event_seq
    cal_last,       \* the last calendar call and the event before it
    docs_docs,      \* DocsSim.docs with their metadata
    docs_clock_ms,  \* DocsSim._clock_ms, counted from its start value
    docs_seq,       \* DocsSim._doc_seq
    docs_last,      \* the last docs call and the document before it
    crm_deals,      \* CrmSim.deals
    crm_d_seq,      \* CrmSim._d_seq
    crm_last,       \* the last CRM deal call and its outcome
    proc_env,       \* the process environment: VEI_CRM_ALIAS_PACKS
    corpus_seen,    \* the first bundle generate_corpus returned for each argument triple
    corpus_last,    \* the last generate_corpus call and its bundle
    corpus_calls,   \* number of generate_corpus calls so far
    flt_input,      \* the workflows given to filter_workflow_corpus
    flt_pos,        \* the loop position of filter_workflow_corpus in its input
    flt_seen,       \* seen_fingerprints
    flt_counter,    \* structure_counter
    flt_accepted,   \* accepted scores
    flt_rejected,   \* rejected scores
    run_wf,         \* the compiled workflow being run
    run_phase,      \* position of run_compiled_workflow: new, loop, final, done
    run_index,      \* index of the loop
    run_guard,      \* guard of the loop
    run_steps,      \* step_results
    run_issues,     \* dynamic_issues
    run_final,      \* final_pending, total -1 before it is read
    run_result,     \* ok and the two reports' ok of the ScenarioRunResult
    db_rows,        \* rows of the table "t" of DatabaseSim.tables
    db_calls,       \* number of db.upsert calls made
    db_last,        \* the last db.upsert call: its row, its result, the rows before it
    rd_receipts     \* request and response payloads of the receipts written

tkVars == <<tickets, metadata, ticket_seq, tk_clock_ms, tk_last>>

connVars == <<c_mode, c_gate, request_seq, receipts, memo, trace, sessB, c_last>>

busVars == <<bus_clock_ms, bus_seq, bus_heap, bus_log, bus_ticks, bus_last>>

pgVars == <<pg_req, pg_cursor, pg_seen, pg_done, pg_page, pg_probe, pg_clock>>

erpVars == <<erp_pos, erp_invoices, erp_po_seq, erp_inv_seq, erp_faulty,
             erp_applied, erp_last,
             erp_receipts, erp_rcpt_seq, erp_po_last>>

oktaVars == <<okta_users, okta_groups, okta_reset_seq, okta_last>>

calVars == <<cal_events, cal_clock_ms, cal_event_seq, cal_last>>

docsVars == <<docs_docs, docs_clock_ms, docs_seq, docs_last>>

crmVars == <<crm_deals, crm_d_seq, crm_last>>

corpusVars == <<proc_env, corpus_seen, corpus_last, corpus_calls>>

filterVars == <<flt_input, flt_pos, flt_seen, flt_counter, flt_accepted, flt_rejected>>

runVars == <<run_wf, run_phase, run_index, run_guard, run_steps, run_issues, run_final, run_result>>

dbVars == <<db_rows, db_calls, db_last>>

redactVars == <<rd_receipts>>

twinVars == <<oktaVars, calVars, docsVars, crmVars, corpusVars, filterVars, runVars, dbVars, redactVars>>

coreVars == <<tkVars, connVars, busVars, pgVars, erpVars>>

notOkta == <<coreVars, calVars, docsVars, crmVars, corpusVars, filterVars, runVars, dbVars, redactVars>>

notCal == <<coreVars, oktaVars, docsVars, crmVars, corpusVars, filterVars, runVars, dbVars, redactVars>>

notDocs == <<coreVars, oktaVars, calVars, crmVars, corpusVars, filterVars, runVars, dbVars, redactVars>>

notCrm == <<coreVars, oktaVars, calVars, docsVars, corpusVars, filterVars, runVars, dbVars, redactVars>>

notCorpus == <<coreVars, oktaVars, calVars, docsVars, crmVars, filterVars, runVars, dbVars, redactVars>>

notFilter == <<coreVars, oktaVars, calVars, docsVars, crmVars, corpusVars, runVars, dbVars, redactVars>>

notRun == <<coreVars, oktaVars, calVars, docsVars, crmVars, corpusVars, filterVars, dbVars, redactVars>>

notDb == <<coreVars, oktaVars, calVars, docsVars, crmVars, corpusVars, filterVars, runVars, redactVars>>

notRedact == <<coreVars, oktaVars, calVars, docsVars, crmVars, corpusVars, filterVars, runVars, dbVars>>

vars == <<tickets, metadata, ticket_seq, tk_clock_ms, tk_last,
          c_mode, c_gate, request_seq, receipts, memo, trace, sessB, c_last,
          bus_clock_ms, bus_seq, bus_heap, bus_log, bus_ticks, bus_last,
          pg_req, pg_cursor, pg_seen, pg_done, pg_page, pg_probe, pg_clock,
          erp_pos, erp_invoices, erp_po_seq, erp_inv_seq, erp_faulty,
          erp_applied, erp_last,
          erp_receipts, erp_rcpt_seq, erp_po_last,
          okta_users, okta_groups, okta_reset_seq, okta_last,
          cal_events, cal_clock_ms, cal_event_seq, cal_last,
          docs_docs, docs_clock_ms, docs_seq, docs_last,
          crm_deals, crm_d_seq, crm_last,
          proc_env, corpus_seen, corpus_last, corpus_calls,
          flt_input, flt_pos, flt_seen, flt_counter, flt_accepted, flt_rejected,
          run_wf, run_phase, run_index, run_guard, run_steps, run_issues, run_final, run_result,
          db_rows, db_calls, db_last,
          rd_receipts>>

-----------------------------------------------------------------------------
(* Bounds *)

MaxTickets == 1
MaxHistory == 3
MaxTkClock == 6
MaxCalls == 2
MaxEvents == 2
MaxBusTicks == 2
MaxDt == 1
MaxRows == 11
MaxProbes == 1
MaxPos == 1
MaxInvoices == 1
MaxPayments == 2

-----------------------------------------------------------------------------
(* Tickets twin: src/vei/router/tickets.py.  The operations are functions   *)
(* from a twin state tw = [tickets, metadata, seq, clock] to the state      *)
(* after the call and the call's outcome.                                   *)

VALID_PRIORITIES == {"P1", "P2", "P3", "P4"}

VALID_STATUSES == {"open", "in_progress", "blocked", "resolved", "closed"}

ALLOWED_TRANSITIONS ==
    [s \in VALID_STATUSES |->
        CASE s = "open"        -> {"in_progress", "blocked", "resolved", "closed"}
          [] s = "in_progress" -> {"blocked", "resolved", "closed"}
          [] s = "blocked"     -> {"open", "in_progress", "resolved", "closed"}
          [] s = "resolved"    -> {"closed", "open", "in_progress"}
          [] s = "closed"      -> {"open"}]

\* Status strings a caller may pass: the five statuses, differently cased or
\* padded spellings of them, and a string that names no status.
StatusInputs ==
    VALID_STATUSES \cup {"CLOSED", " open ", "done"}

\* status.strip().lower()
StripLower(s) ==
    CASE s = "CLOSED"   -> "closed"
      [] s = " open "   -> "open"
      [] s = "Acme"     -> "acme"
      [] s = " ACME"    -> "acme"
      [] s = " Continue " -> "continue"
      [] s = "jump:S2"  -> "jump:s2"
      [] s = " Salesforce " -> "salesforce"
      [] s = "New"      -> "new"
      [] s = " Closed Won " -> "closed won"
      [] OTHER          -> s

\* Priority strings a caller may pass; "" stands for an omitted priority.
PriorityInputs == {"P1", "p2 ", "P9", ""}

\* priority.strip().upper()
StripUpper(p) ==
    CASE p = "p2 "        -> "P2"
      [] p = "tentative"  -> "TENTATIVE"
      [] p = " canceled " -> "CANCELED"
      [] p = "archived"   -> "ARCHIVED"
      [] p = "bogus"      -> "BOGUS"
      [] OTHER            -> p

NoTicket == [status |-> "none", history |-> <<>>]

TicketIds == 1 .. MaxTickets

Put(f, k, v) == [x \in DOMAIN f \cup {k} |-> IF x = k THEN v ELSE f[x]]

\* TicketsSim._meta: setdefault with an eagerly built default, so every call
\* draws two timestamps from _now_ms whether or not the entry exists.
MetaDefault(clock) ==
    [priority |-> "P3", comments |-> 0,
     created_ms |-> clock + 1, updated_ms |-> clock + 2]

MetaEnsure(md, id, clock) ==
    IF id \in DOMAIN md THEN md ELSE Put(md, id, MetaDefault(clock))

TkOut(tw, ok, err) == [tw |-> tw, ok |-> ok, err |-> err]

\* The guard of TicketsSim.transition.
TransitionAllowedBroken(current, target) ==
    target \in VALID_STATUSES

TransitionAllowed(current, target) ==
    /\ target \in VALID_STATUSES
    /\ \/ target = current
       \/ target \in ALLOWED_TRANSITIONS[current]

\* TicketsSim.transition(ticket_id, status)
Transition(tw, id, status) ==
    LET target == StripLower(status) IN
    IF id \notin DOMAIN tw.tickets
    THEN TkOut(tw, FALSE, "tickets.operation_failed")
    ELSE IF ~TransitionAllowed(tw.tickets[id].status, target)
    THEN TkOut(tw, FALSE, "tickets.operation_failed")
    ELSE TkOut(
        [tw EXCEPT
            !.tickets[id] =
                [status |-> target,
                 history |-> Append(@.history, [status |-> target, tag |-> "status"])],
            !.metadata = [MetaEnsure(@, id, tw.clock + 1)
                            EXCEPT ![id].updated_ms = tw.clock + 1],
            !.clock = @ + 3],
        TRUE, "")

\* TicketsSim.create(title, priority=...): the ticket is stored and the
\* sequence advanced before the priority is validated.
Create(tw, priority) ==
    LET id == tw.seq
        normalized == IF priority = "" THEN "P3" ELSE StripUpper(priority)
        ticket == [status |-> "open",
                   history |-> <<[status |-> "open", tag |-> "status"]>>]
        stored == [tw EXCEPT !.seq = @ + 1, !.tickets = Put(@, id, ticket)]
    IN
    IF normalized \notin VALID_PRIORITIES
    THEN TkOut(stored, FALSE, "tickets.operation_failed")
    ELSE TkOut(
        [stored EXCEPT
            !.clock = @ + 1,
            !.metadata = Put(@, id,
                [priority |-> normalized, comments |-> 0,
                 created_ms |-> tw.clock + 1, updated_ms |-> tw.clock + 1])],
        TRUE, "")

\* TicketsSim.update(ticket_id, ...): touch says whether a description,
\* assignee or labels argument is given; priority "" is an omitted priority.
Update(tw, id, touch, priority) ==
    IF id \notin DOMAIN tw.tickets
    THEN TkOut(tw, FALSE, "tickets.operation_failed")
    ELSE
    LET md0 == MetaEnsure(tw.metadata, id, tw.clock)
        c0 == tw.clock + 2
        normalized == StripUpper(priority)
        invalid == priority # "" /\ normalized \notin VALID_PRIORITIES
        prioChanged == priority # "" /\ md0[id].priority # normalized
        changed == touch \/ prioChanged
        md1 == IF prioChanged THEN [md0 EXCEPT ![id].priority = normalized] ELSE md0
    IN
    IF invalid
    THEN TkOut([tw EXCEPT !.metadata = md0, !.clock = c0],
               FALSE, "tickets.operation_failed")
    ELSE TkOut(
        [tw EXCEPT
            !.tickets[id].history =
                Append(@, [status |-> tw.tickets[id].status, tag |-> "fields"]),
            !.metadata = IF changed
                         THEN [md1 EXCEPT ![id].updated_ms = c0 + 1]
                         ELSE md1,
            !.clock = IF changed THEN c0 + 1 ELSE c0],
        TRUE, "")

\* TicketsSim.add_comment(ticket_id, body); blank stands for a body that is
\* empty after strip().
AddComment(tw, id, blank) ==
    IF id \notin DOMAIN tw.tickets \/ blank
    THEN TkOut(tw, FALSE, "tickets.operation_failed")
    ELSE
    LET md0 == MetaEnsure(tw.metadata, id, tw.clock)
        now == tw.clock + 3
    IN
    TkOut(
        [tw EXCEPT
            !.metadata = [md0 EXCEPT ![id].comments = @ + 1,
                                     ![id].updated_ms = now],
            !.clock = now,
            !.tickets[id].history =
                Append(@, [status |-> tw.tickets[id].status, tag |-> "comment"])],
        TRUE, "")

\* TicketsSim.get(ticket_id): _ticket_payload reads the metadata through
\* _meta, which draws two timestamps.
Get(tw, id) ==
    IF id \notin DOMAIN tw.tickets
    THEN TkOut(tw, FALSE, "tickets.operation_failed")
    ELSE TkOut([tw EXCEPT !.metadata = MetaEnsure(@, id, tw.clock),
                          !.clock = @ + 2],
               TRUE, "")

\* TicketsSim.deliver(event): a payload naming a known ticket routes to
\* transition, add_comment or update; any other payload creates, and needs
\* a title.
DeliverKinds == {"status", "comment", "fields", "new", "untitled"}

Deliver(tw, id, kind, status, priority) ==
    IF id \in DOMAIN tw.tickets
    THEN CASE kind = "status"  -> Transition(tw, id, status)
           [] kind = "comment" -> AddComment(tw, id, FALSE)
           [] OTHER            -> Update(tw, id, FALSE, priority)
    ELSE IF kind = "untitled"
         THEN TkOut(tw, FALSE, "tickets.operation_failed")
         ELSE Create(tw, IF priority = "" THEN "P3" ELSE priority)

-----------------------------------------------------------------------------
(* The tickets twin as a state machine *)

Twin == [tickets |-> tickets, metadata |-> metadata,
         seq |-> ticket_seq, clock |-> tk_clock_ms]

TkApply(op, id, arg, out) ==
    /\ tickets' = out.tw.tickets
    /\ metadata' = out.tw.metadata
    /\ ticket_seq' = out.tw.seq
    /\ tk_clock_ms' = out.tw.clock
    /\ tk_last' = [op |-> op, id |-> id, arg |-> arg, ok |-> out.ok,
                   pre |-> IF id \in DOMAIN tickets THEN tickets[id] ELSE NoTicket]
    /\ UNCHANGED connVars
    /\ UNCHANGED busVars
    /\ UNCHANGED pgVars
    /\ UNCHANGED <<erpVars, twinVars>>

TkRoom(id) ==
    /\ tk_clock_ms < MaxTkClock
    /\ id \in DOMAIN tickets => Len(tickets[id].history) < MaxHistory

TicketsTransition ==
    \E id \in TicketIds, status \in StatusInputs :
        /\ TkRoom(id)
        /\ TkApply("transition", id, status, Transition(Twin, id, status))

TicketsCreate ==
    \E priority \in PriorityInputs :
        /\ ticket_seq <= MaxTickets
        /\ tk_clock_ms < MaxTkClock
        /\ TkApply("create", ticket_seq, priority, Create(Twin, priority))

TicketsUpdate ==
    \E id \in TicketIds, touch \in BOOLEAN, priority \in PriorityInputs :
        /\ TkRoom(id)
        /\ TkApply("update", id, priority, Update(Twin, id, touch, priority))

TicketsAddComment ==
    \E id \in TicketIds, blank \in BOOLEAN :
        /\ TkRoom(id)
        /\ TkApply("add_comment", id, "", AddComment(Twin, id, blank))

TicketsDeliver ==
    \E id \in TicketIds \cup {0}, kind \in DeliverKinds :
        /\ TkRoom(id)
        /\ id \in DOMAIN tickets <=> kind \in {"status", "comment", "fields"}
        /\ kind = "new" => ticket_seq <= MaxTickets
        /\ \E status \in (IF kind = "status" THEN StatusInputs ELSE {"open"}),
              priority \in (IF kind \in {"fields", "new"} THEN PriorityInputs ELSE {""}) :
              TkApply(IF kind = "status" THEN "transition" ELSE "deliver",
                      id, status, Deliver(Twin, id, kind, status, priority))

\* TicketsSim.__init__: the scenario seeds no ticket, or one ticket TCK-1 in
\* any status, with metadata stamped from the twin clock.
InitTwin ==
    /\ tk_clock_ms = 0
    /\ tk_last = [op |-> "init", id |-> 0, arg |-> "", ok |-> TRUE, pre |-> NoTicket]
    /\ \/ /\ tickets = << >>
          /\ metadata = << >>
          /\ ticket_seq = 1
       \/ \E s \in VALID_STATUSES :
            /\ tickets = (1 :> [status |-> s,
                                history |-> <<[status |-> s, tag |-> "status"]>>])
            /\ metadata = (1 :> [priority |-> "P3", comments |-> 0,
                                 created_ms |-> 1, updated_ms |-> 1])
            /\ ticket_seq = 2

\* The connector runtime as constructed, unused.
IdleConn ==
    /\ c_mode = "sim"
    /\ c_gate = [allow_safe |-> FALSE, allow_risky |-> FALSE, blocked |-> {}]
    /\ request_seq = 0
    /\ receipts = << >>
    /\ memo = << >>
    /\ trace = << >>
    /\ sessB = << >>
    /\ c_last = << >>

\* The event bus as constructed: clock 0, nothing scheduled.
IdleBus ==
    /\ bus_clock_ms = 0
    /\ bus_seq = 0
    /\ bus_heap = {}
    /\ bus_log = << >>
    /\ bus_ticks = 0
    /\ bus_last =
          [call |-> [op |-> "init", dt |-> 0, target |-> "", seq |-> 0, idle |-> TRUE],
           prev |-> [op |-> "init", dt |-> 0, target |-> "", seq |-> 0, idle |-> TRUE]]

\* A walk that has not made its first call.
IdleWalk ==
    /\ pg_cursor = <<"None">>
    /\ pg_seen = << >>
    /\ pg_done = FALSE
    /\ pg_page = [ok |-> TRUE, err |-> "", rows |-> << >>, count |-> 0,
                  total |-> 0, next_cursor |-> <<"None">>, has_more |-> FALSE,
                  legacy |-> FALSE, clock |-> 0, index |-> 0]
    /\ pg_probe = [made |-> 0, cursor |-> <<"None">>, ok |-> TRUE, err |-> "",
                   rows |-> << >>, clock_before |-> 0]
    /\ pg_clock = 0

\* No list request made.
IdlePage ==
    /\ pg_req = [kind |-> "none", n |-> 0, limit |-> [none |-> TRUE, n |-> 0],
                 offset |-> 0, plain |-> FALSE]
    /\ IdleWalk

NoInvoice == [po_id |-> 0, vendor |-> "", status |-> "none", amount |-> 0,
              paid_amount |-> 0, updated_ms |-> 0, lines |-> << >>]

NoMatch == [invoice_id |-> 0, receipt_id |-> 0, status |-> "none"]

NoPo == [vendor |-> "", status |-> "none", amount |-> 0, updated_ms |-> 0,
         lines |-> << >>, received |-> << >>, last_three_way_match |-> NoMatch]

\* The last call was neither receive_goods nor match_three_way.
NoPoCall == [op |-> "init", ok |-> TRUE, err |-> "", po_id |-> 0,
             invoice_id |-> 0, receipt_id |-> 0, lines |-> << >>,
             status |-> "", pre |-> NoPo]

\* ErpSim.__init__ with error injection off, unused.
IdleErp ==
    /\ erp_pos = << >>
    /\ erp_invoices = << >>
    /\ erp_po_seq = 1
    /\ erp_inv_seq = 1
    /\ erp_faulty = FALSE
    /\ erp_applied = << >>
    /\ erp_last = [op |-> "init", id |-> 0, ok |-> TRUE, err |-> "",
                   paid_c |-> 0, pre |-> NoInvoice]
    /\ erp_receipts = << >>
    /\ erp_rcpt_seq = 1
    /\ erp_po_last = NoPoCall

\* OktaSim unused.
IdleOkta ==
    /\ okta_users = << >>
    /\ okta_groups = << >>
    /\ okta_reset_seq = 1
    /\ okta_last = [op |-> "init", user_id |-> "", ok |-> TRUE, err |-> "",
                    pre |-> ""]

NoEvent == [title |-> "", start_ms |-> 0, end_ms |-> 0, attendees |-> << >>,
            location |-> "", description |-> "", status |-> "none",
            organizer |-> "", version |-> 0, created_ms |-> 0, updated_ms |-> 0,
            cancel_reason |-> "", responses |-> << >>]

\* CalendarSim unused.
IdleCal ==
    /\ cal_events = << >>
    /\ cal_clock_ms = 0
    /\ cal_event_seq = 1
    /\ cal_last = [op |-> "init", id |-> 0, ok |-> TRUE, pre |-> NoEvent]

\* A document without metadata has version 0.
NoDoc == [title |-> "", body |-> "", tags |-> << >>, owner |-> "",
          status |-> "none", version |-> 0, created_ms |-> 0, updated_ms |-> 0]

\* DocsSim unused.
IdleDocs ==
    /\ docs_docs = << >>
    /\ docs_clock_ms = 0
    /\ docs_seq = 1
    /\ docs_last = [op |-> "init", id |-> 0, ok |-> TRUE, pre |-> NoDoc]

\* CrmSim without deals.
IdleCrm ==
    /\ crm_deals = << >>
    /\ crm_d_seq = 1
    /\ crm_last = [op |-> "init", id |-> 0, stage |-> "", ok |-> TRUE, err |-> ""]

NoCorpusCall == [args |-> <<0, 0, 0>>, bundle |-> << >>]

\* No generate_corpus call yet, VEI_CRM_ALIAS_PACKS unset.
IdleCorpus ==
    /\ proc_env = [set |-> FALSE, value |-> << >>]
    /\ corpus_seen = << >>
    /\ corpus_last = NoCorpusCall
    /\ corpus_calls = 0

\* filter_workflow_corpus not called.
IdleFilter ==
    /\ flt_input = << >>
    /\ flt_pos = 1
    /\ flt_seen = {}
    /\ flt_counter = << >>
    /\ flt_accepted = << >>
    /\ flt_rejected = << >>

\* run_compiled_workflow not called.
IdleRun ==
    /\ run_wf = [steps |-> << >>, trigger_step |-> "", approvals |-> FALSE,
                 success_assertions |-> << >>]
    /\ run_phase = "idle"
    /\ run_index = 0
    /\ run_guard = 0
    /\ run_steps = << >>
    /\ run_issues = << >>
    /\ run_final = [total |-> -1]
    /\ run_result = [ok |-> FALSE, static_ok |-> FALSE, dynamic_ok |-> FALSE]

NoDbCall ==
    [called |-> FALSE, row |-> [has_key |-> FALSE, id |-> "", v |-> 0],
     id |-> "", updated |-> FALSE, before |-> << >>]

\* No db.upsert call made on the table.
IdleDb ==
    /\ db_rows = << >>
    /\ db_calls = 0
    /\ db_last = NoDbCall

\* No receipt written.
IdleRedact == rd_receipts = << >>

IdleTwins == IdleOkta /\ IdleCal /\ IdleDocs /\ IdleCrm /\ IdleCorpus /\ IdleFilter /\ IdleRun /\ IdleDb /\ IdleRedact

IdleButOkta == IdleCal /\ IdleDocs /\ IdleCrm /\ IdleCorpus /\ IdleFilter /\ IdleRun /\ IdleDb /\ IdleRedact

IdleButCal == IdleOkta /\ IdleDocs /\ IdleCrm /\ IdleCorpus /\ IdleFilter /\ IdleRun /\ IdleDb /\ IdleRedact

IdleButDocs == IdleOkta /\ IdleCal /\ IdleCrm /\ IdleCorpus /\ IdleFilter /\ IdleRun /\ IdleDb /\ IdleRedact

IdleButCrm == IdleOkta /\ IdleCal /\ IdleDocs /\ IdleCorpus /\ IdleFilter /\ IdleRun /\ IdleDb /\ IdleRedact

IdleButCorpus == IdleOkta /\ IdleCal /\ IdleDocs /\ IdleCrm /\ IdleFilter /\ IdleRun /\ IdleDb /\ IdleRedact

IdleButFilter == IdleOkta /\ IdleCal /\ IdleDocs /\ IdleCrm /\ IdleCorpus /\ IdleRun /\ IdleDb /\ IdleRedact

IdleButRun == IdleOkta /\ IdleCal /\ IdleDocs /\ IdleCrm /\ IdleCorpus /\ IdleFilter /\ IdleDb /\ IdleRedact

IdleButDb == IdleOkta /\ IdleCal /\ IdleDocs /\ IdleCrm /\ IdleCorpus /\ IdleFilter /\ IdleRun /\ IdleRedact

IdleButRedact == IdleOkta /\ IdleCal /\ IdleDocs /\ IdleCrm /\ IdleCorpus /\ IdleFilter /\ IdleRun /\ IdleDb

InitTickets == InitTwin /\ IdleConn /\ IdleBus /\ IdlePage /\ IdleErp /\ IdleTwins

NextTickets ==
    \/ TicketsTransition
    \/ TicketsCreate
    \/ TicketsUpdate
    \/ TicketsAddComment
    \/ TicketsDeliver

SpecTickets == InitTickets /\ [][NextTickets]_vars

-----------------------------------------------------------------------------
(* C1 *)

\* The transition table as the claim lists it.
ClaimedTable ==
    [s \in VALID_STATUSES |->
        CASE s = "open"        -> {"in_progress", "blocked", "resolved", "closed"}
          [] s = "in_progress" -> {"blocked", "resolved", "closed"}
          [] s = "blocked"     -> {"open", "in_progress", "resolved", "closed"}
          [] s = "resolved"    -> {"closed", "open", "in_progress"}
          [] s = "closed"      -> {"open"}]

LastTransition ==
    /\ tk_last.op = "transition"
    /\ tk_last.id \in DOMAIN tickets
    /\ tk_last.pre # NoTicket

\* C1 as stated: a transition (tool call or bus delivery) succeeds only when
\* the requested status is listed in the table for the current status; every
\* other request, one naming the current status included, is rejected and
\* leaves status and history unchanged.
C1_TableOnly ==
    LastTransition =>
        /\ tk_last.ok =>
              StripLower(tk_last.arg) \in ClaimedTable[tk_last.pre.status]
        /\ ~tk_last.ok => tickets[tk_last.id] = tk_last.pre

\* C1 amended: a transition succeeds exactly when the requested status is
\* the ticket's current status or is listed in the table for it; a success
\* sets the status and appends one history entry, and every rejected request
\* leaves the ticket's status and history unchanged.
C1_TransitionGuard ==
    LastTransition =>
        LET cur == tk_last.pre.status
            target == StripLower(tk_last.arg)
            listed == target \in VALID_STATUSES /\ target \in ClaimedTable[cur]
        IN
        /\ tk_last.ok <=> (listed \/ target = cur)
        /\ tk_last.ok =>
              /\ tickets[tk_last.id].status = target
              /\ Len(tickets[tk_last.id].history) = Len(tk_last.pre.history) + 1
        /\ ~tk_last.ok => tickets[tk_last.id] = tk_last.pre

\* A closed ticket with earlier transitions has just had a request for
\* "blocked" rejected.
C1_Witness ==
    /\ LastTransition
    /\ ~tk_last.ok
    /\ tk_last.pre.status = "closed"
    /\ StripLower(tk_last.arg) = "blocked"
    /\ Len(tk_last.pre.history) >= 2

-----------------------------------------------------------------------------
(* Connector runtime: src/vei/connectors/{api,policy,adapters,runtime}.py,  *)
(* fronting the tickets twin.                                               *)

RECEIPT_CAP == 200

Tools == {"tickets.get", "tickets.create", "tickets.transition"}

\* TOOL_ROUTES, the tickets entries used here.
TOOL_ROUTES ==
    [t \in Tools |->
        CASE t = "tickets.get" ->
                [service |-> "tickets", operation |-> "get",
                 operation_class |-> "read"]
          [] t = "tickets.create" ->
                [service |-> "tickets", operation |-> "create",
                 operation_class |-> "write_safe"]
          [] t = "tickets.transition" ->
                [service |-> "tickets", operation |-> "transition",
                 operation_class |-> "write_risky"]]

OperationId(route) ==
    CASE route.operation = "get"    -> "tickets.get"
      [] route.operation = "create" -> "tickets.create"
      [] OTHER                      -> "tickets.transition"

\* DefaultPolicyGate.evaluate(request, mode)
PolicyEvaluateBroken(gate, route, mode) ==
    IF OperationId(route) \in gate.blocked THEN "deny"
    ELSE IF mode # "live" THEN "allow"
    ELSE IF route.operation_class = "read" THEN "allow"
    ELSE IF route.operation_class = "write_safe"
         THEN "allow"
    ELSE IF route.operation_class = "write_risky"
         THEN (IF gate.allow_risky THEN "allow" ELSE "deny")
    ELSE "allow"

\* The gate with the blocklist looked at after the class.
PolicyEvaluateBlocklistLast(gate, route, mode) ==
    IF mode # "live" THEN "allow"
    ELSE IF route.operation_class = "read" THEN "allow"
    ELSE IF route.operation_class = "write_safe"
         THEN (IF gate.allow_safe THEN "allow" ELSE "require_approval")
    ELSE IF route.operation_class = "write_risky"
         THEN (IF gate.allow_risky THEN "allow" ELSE "deny")
    ELSE IF OperationId(route) \in gate.blocked THEN "deny"
    ELSE "allow"

PolicyEvaluate(gate, route, mode) ==
    IF OperationId(route) \in gate.blocked THEN "deny"
    ELSE IF mode # "live" THEN "allow"
    ELSE IF route.operation_class = "read" THEN "allow"
    ELSE IF route.operation_class = "write_safe"
         THEN (IF gate.allow_safe THEN "allow" ELSE "require_approval")
    ELSE IF route.operation_class = "write_risky"
         THEN (IF gate.allow_risky THEN "allow" ELSE "deny")
    ELSE "allow"

\* handler(**request.payload) for the tickets handlers
RunHandler(tw, operation, payload) ==
    CASE operation = "get"    -> Get(tw, payload.id)
      [] operation = "create" -> Create(tw, payload.arg)
      [] OTHER                -> Transition(tw, payload.id, payload.arg)

\* SimConnectorAdapter.execute: lat is the latency the adapter measures with
\* time.perf_counter around the handler, in whole milliseconds.
SimResult(out, lat) ==
    [tw |-> out.tw,
     result |-> [ok |-> out.ok,
                 status_code |-> IF out.ok THEN 200 ELSE 400,
                 code |-> out.err,
                 data |-> IF out.ok THEN out.tw.tickets ELSE << >>,
                 latency_ms |-> lat,
                 adapter |-> "sim", cache_hit |-> "none", live_backend |-> "none"]]

SimExecute(tw, route, payload, lat) ==
    SimResult(RunHandler(tw, route.operation, payload), lat)

\* _request_key(request)
RequestKey(route, payload) == <<route.service, route.operation, payload>>

\* ReplayConnectorAdapter.execute
ReplayHit(mm, tw, key) ==
    [tw |-> tw, memo |-> mm,
     result |-> [mm[key] EXCEPT !.adapter = "replay", !.cache_hit = "true"]]

ReplayMiss(mm, key, ex) ==
    [tw |-> ex.tw, memo |-> Put(mm, key, ex.result),
     result |-> [ex.result EXCEPT !.adapter = "replay", !.cache_hit = "false"]]

\* The replay adapter without the lookup in the memo.
ReplayExecuteBroken(mm, tw, route, payload, lat) ==
    ReplayMiss(mm, RequestKey(route, payload),
               SimExecute(tw, route, payload, lat))

ReplayExecute(mm, tw, route, payload, lat) ==
    IF RequestKey(route, payload) \in DOMAIN mm
    THEN ReplayHit(mm, tw, RequestKey(route, payload))
    ELSE ReplayMiss(mm, RequestKey(route, payload),
                    SimExecute(tw, route, payload, lat))

\* LiveConnectorAdapter.execute
LiveStamp(mm, ex) ==
    [tw |-> ex.tw, memo |-> mm,
     result |-> [ex.result EXCEPT !.adapter = "live", !.live_backend = "simulated"]]

LiveExecute(mm, tw, route, payload, lat) ==
    LiveStamp(mm, SimExecute(tw, route, payload, lat))

SimStamp(mm, ex) == [tw |-> ex.tw, memo |-> mm, result |-> ex.result]

\* AdapterTriplet.for_mode(mode).execute(request); the result carries the
\* twin and the replay memo after the call.
AdapterExecute(mode, mm, tw, route, payload, lat) ==
    CASE mode = "replay" -> ReplayExecute(mm, tw, route, payload, lat)
      [] mode = "live"   -> LiveExecute(mm, tw, route, payload, lat)
      [] OTHER           -> SimStamp(mm, SimExecute(tw, route, payload, lat))

\* self._receipts = self._receipts[-200:]
KeepLastBroken(seq, n) ==
    IF Len(seq) > n THEN SubSeq(seq, 1, n) ELSE seq

KeepLast(seq, n) ==
    IF Len(seq) > n THEN SubSeq(seq, Len(seq) - n + 1, Len(seq)) ELSE seq

\* ConnectorRuntime._record_receipt; result is << >> when the gate blocked
\* the call.
RecordReceipt(rcpts, mode, reqId, route, payload, action, result) ==
    LET receipt ==
            [request_id |-> reqId, mode |-> mode,
             operation |-> route.operation,
             operation_class |-> route.operation_class,
             policy_action |-> action,
             ok |-> IF result = << >> THEN TRUE ELSE result.ok,
             status_code |-> IF result = << >> THEN 200 ELSE result.status_code,
             request_payload |-> payload,
             latency_ms |-> IF result = << >> THEN 0 ELSE result.latency_ms]
    IN KeepLast(Append(rcpts, receipt), RECEIPT_CAP)

\* Whether the decision stops the call before the adapter.
GateBlocksBroken(action) == action = "deny"

GateBlocks(action) == action \in {"deny", "require_approval"}

PolicyError(action) ==
    IF action = "deny" THEN "policy.denied" ELSE "policy.approval_required"

\* The router's trace entry for one call.
TraceEntry(tool, payload, code) == [tool |-> tool, args |-> payload, code |-> code]

\* ConnectorRuntime.invoke_tool(tool, args) on a session
\* [twin, request_seq, receipts, memo, trace]: the branch the gate stops.
InvokeBlocked(sess, mode, tool, route, payload, action) ==
    [sess |-> [sess EXCEPT
            !.request_seq = @ + 1,
            !.receipts = RecordReceipt(@, mode, sess.request_seq + 1, route,
                                       payload, action, << >>),
            !.trace = Append(@, TraceEntry(tool, payload, PolicyError(action)))],
     action |-> action,
     error |-> PolicyError(action),
     cache_hit |-> "none"]

ResultCode(result) == IF result.ok THEN "" ELSE result.code

\* invoke_tool, the branch the gate allows: ex is the adapter's outcome.
InvokeAllowed(sess, mode, tool, route, payload, action, ex) ==
    [sess |-> [twin |-> ex.tw,
               request_seq |-> sess.request_seq + 1,
               receipts |-> RecordReceipt(sess.receipts, mode,
                                          sess.request_seq + 1, route,
                                          payload, action, ex.result),
               memo |-> ex.memo,
               trace |-> Append(sess.trace,
                                TraceEntry(tool, payload, ResultCode(ex.result)))],
     action |-> action,
     error |-> ResultCode(ex.result),
     cache_hit |-> ex.result.cache_hit]

InvokeDecided(sess, mode, tool, route, payload, lat, action) ==
    IF GateBlocks(action)
    THEN InvokeBlocked(sess, mode, tool, route, payload, action)
    ELSE InvokeAllowed(sess, mode, tool, route, payload, action,
                       AdapterExecute(mode, sess.memo, sess.twin, route, payload, lat))

InvokeTool(sess, mode, gate, tool, payload, lat) ==
    InvokeDecided(sess, mode, tool, TOOL_ROUTES[tool], payload, lat,
                  PolicyEvaluate(gate, TOOL_ROUTES[tool], mode))

SessA == [twin |-> Twin, request_seq |-> request_seq, receipts |-> receipts,
          memo |-> memo, trace |-> trace]

\* Arguments a caller passes to the three tools.
Payloads(tool) ==
    CASE tool = "tickets.get"    -> {[id |-> 1, arg |-> ""]}
      [] tool = "tickets.create" -> {[id |-> 0, arg |-> "P1"], [id |-> 0, arg |-> "P9"]}
      [] OTHER -> {[id |-> 1, arg |-> "closed"], [id |-> 1, arg |-> "blocked"]}

\* Whole milliseconds a handler call may be measured to take.
LatencyChoices == {0, 1}

ConnApply(tool, payload, a, b) ==
    /\ tickets' = a.sess.twin.tickets
    /\ metadata' = a.sess.twin.metadata
    /\ ticket_seq' = a.sess.twin.seq
    /\ tk_clock_ms' = a.sess.twin.clock
    /\ request_seq' = a.sess.request_seq
    /\ receipts' = a.sess.receipts
    /\ memo' = a.sess.memo
    /\ trace' = a.sess.trace
    /\ sessB' = b.sess
    /\ c_last' = [tool |-> tool, payload |-> payload,
                  action |-> a.action, error |-> a.error,
                  cache_hit |-> a.cache_hit, pre |-> SessA]
    /\ UNCHANGED <<c_mode, c_gate, tk_last>>
    /\ UNCHANGED busVars
    /\ UNCHANGED pgVars
    /\ UNCHANGED <<erpVars, twinVars>>

\* One tool call, given to both sessions; each measures its own latency.
\* limit bounds the number of calls of the session.
ConnInvokeUpTo(limit) ==
    \E tool \in Tools :
    \E payload \in Payloads(tool), latA \in LatencyChoices, latB \in LatencyChoices :
        /\ request_seq < limit
        /\ ConnApply(tool, payload,
                     InvokeTool(SessA, c_mode, c_gate, tool, payload, latA),
                     InvokeTool(sessB, c_mode, c_gate, tool, payload, latB))

ConnInvoke == ConnInvokeUpTo(MaxCalls)

BlockLists == {{}, {"tickets.get"}, {"tickets.create"}, {"tickets.transition"}}

\* Router construction with a connector mode and the gate read from the
\* environment; both sessions start from the same seeded twin.
InitConn ==
    /\ tk_clock_ms = 0
    /\ tk_last = [op |-> "init", id |-> 0, arg |-> "", ok |-> TRUE, pre |-> NoTicket]
    /\ tickets = (1 :> [status |-> "open",
                        history |-> <<[status |-> "open", tag |-> "status"]>>])
    /\ metadata = (1 :> [priority |-> "P3", comments |-> 0,
                         created_ms |-> 1, updated_ms |-> 1])
    /\ ticket_seq = 2
    /\ c_mode \in {"sim", "replay", "live"}
    /\ c_gate \in [allow_safe : BOOLEAN, allow_risky : BOOLEAN, blocked : BlockLists]
    /\ request_seq = 0
    /\ receipts = << >>
    /\ memo = << >>
    /\ trace = << >>
    /\ sessB = [twin |-> Twin, request_seq |-> 0, receipts |-> << >>,
                memo |-> << >>, trace |-> << >>]
    /\ c_last = << >>
    /\ IdleBus
    /\ IdlePage
    /\ IdleErp
    /\ IdleTwins

NextConn == ConnInvoke

SpecConn == InitConn /\ [][NextConn]_vars

-----------------------------------------------------------------------------
(* C2, C3, C4 *)

Invoked == c_last # << >>

LastReceipt == receipts[Len(receipts)]

LastClass == TOOL_ROUTES[c_last.tool].operation_class

LiveLocked == c_mode = "live" /\ ~c_gate.allow_safe /\ ~c_gate.allow_risky

\* C2 as stated: in live mode with both allow flags false, every write_safe
\* invocation raises policy.approval_required and every write_risky
\* invocation raises policy.denied, each leaving a receipt whose policy
\* action matches.
C2_LiveWrites ==
    (Invoked /\ LiveLocked) =>
        /\ LastClass = "write_safe" =>
              /\ c_last.error = "policy.approval_required"
              /\ LastReceipt.policy_action = "require_approval"
        /\ LastClass = "write_risky" =>
              /\ c_last.error = "policy.denied"
              /\ LastReceipt.policy_action = "deny"

\* C2 amended: in live mode with both allow flags false, a write_safe
\* invocation raises policy.approval_required unless its service.operation
\* is blocklisted, in which case it raises policy.denied; every write_risky
\* invocation raises policy.denied; each leaves a receipt for that request
\* whose policy action matches the decision.
C2_LiveWritesUnlessBlocked ==
    (Invoked /\ LiveLocked /\ LastClass # "read") =>
        LET denied == \/ LastClass = "write_risky"
                      \/ c_last.tool \in c_gate.blocked
        IN
        /\ c_last.error =
              (IF denied THEN "policy.denied" ELSE "policy.approval_required")
        /\ LastReceipt.policy_action =
              (IF denied THEN "deny" ELSE "require_approval")
        /\ LastReceipt.request_id = request_seq
        /\ LastReceipt.operation = TOOL_ROUTES[c_last.tool].operation

\* In live mode with both flags false and nothing blocklisted, a second
\* write has been stopped: a risky one after a safe one.
C2_Witness ==
    /\ Invoked /\ LiveLocked
    /\ c_gate.blocked = {}
    /\ Len(receipts) >= 2
    /\ receipts[1].policy_action = "require_approval"
    /\ LastClass = "write_risky"
    /\ c_last.error = "policy.denied"

C4_SessionsIdentical ==
    Invoked =>
        /\ sessB.trace = trace
        /\ sessB.twin = Twin
        /\ sessB.receipts = receipts

-----------------------------------------------------------------------------
(* The event bus and clock (vei/router/core.py, described in spec.md 4.1) *)

\* Targets of scheduled events; custom_target has no twin behind it.
Targets == {"mail", "docs", "custom_target"}

KnownTargets == {"mail", "docs"}

\* What a payload makes the delivering handler do: nothing more, or schedule
\* one follow-up event at dt_ms=0 for the named target (a mail reply).
Echoes == {"none", "mail"}

\* Event {time_ms, seq, target, payload}; born is the tick whose delivery
\* pass scheduled the event (0 when a caller scheduled it).
Event(time_ms, seq, target, echo, born) ==
    [time_ms |-> time_ms, seq |-> seq, target |-> target,
     echo |-> echo, born |-> born]

\* The heap order (time_ms, seq).
EventBeforeBroken(a, b) ==
    a.seq < b.seq

EventBefore(a, b) ==
    \/ a.time_ms < b.time_ms
    \/ a.time_ms = b.time_ms /\ a.seq < b.seq

HeapHead(events) ==
    CHOOSE e \in events : \A o \in events \ {e} : EventBefore(e, o)

\* The events a tick that advanced the clock to clock_ms has to deliver.
DueBroken(heap, clock_ms) ==
    {e \in heap : e.time_ms < clock_ms}

Due(heap, clock_ms) ==
    {e \in heap : e.time_ms <= clock_ms}

\* deliver(payload) of the target twin, as far as the bus sees it: the
\* follow-up events the handler schedules at dt_ms=0.
HandlerSchedules(e, clock_ms, seq, tick) ==
    IF e.target \in KnownTargets /\ e.echo # "none"
    THEN {Event(clock_ms + 0, seq + 1, e.echo, "none", tick)}
    ELSE {}

\* What the running delivery pass still has to deliver after a handler
\* scheduled fresh events: they do not join it (I3).
DrainNextBroken(rest, fresh, clock_ms) ==
    rest \cup Due(fresh, clock_ms)

DrainNext(rest, fresh, clock_ms) ==
    rest

RECURSIVE Drain(_, _, _, _, _, _)

DrainRest(next, fresh, held, log, seq, clock_ms, tick) ==
    Drain(next, held \cup (fresh \ next), log,
          seq + Cardinality(fresh), clock_ms, tick)

DrainStep(e, due, held, log, seq, clock_ms, tick, fresh) ==
    DrainRest(DrainNext(due \ {e}, fresh, clock_ms), fresh, held,
              Append(log, [ev |-> e, tick |-> tick]), seq, clock_ms, tick)

DrainHead(e, due, held, log, seq, clock_ms, tick) ==
    DrainStep(e, due, held, log, seq, clock_ms, tick,
              HandlerSchedules(e, clock_ms, seq, tick))

\* A delivery pass that an event without a twin brings to an end.
DrainBroken(due, held, log, seq, clock_ms, tick) ==
    IF due = {}
    THEN [heap |-> held, log |-> log, seq |-> seq]
    ELSE IF HeapHead(due).target \notin KnownTargets
         THEN [heap |-> held \cup due, log |-> log, seq |-> seq]
         ELSE DrainHead(HeapHead(due), due, held, log, seq, clock_ms, tick)

\* The delivery pass of tick: pop the heap head while it is due.
Drain(due, held, log, seq, clock_ms, tick) ==
    IF due = {}
    THEN [heap |-> held, log |-> log, seq |-> seq]
    ELSE DrainHead(HeapHead(due), due, held, log, seq, clock_ms, tick)

BusCall(op, dt, target, seq, idle) ==
    [op |-> op, dt |-> dt, target |-> target, seq |-> seq, idle |-> idle]

PendingFor(heap, target) ==
    Cardinality({e \in heap : e.target = target})

\* EventBus.schedule(dt_ms, target, payload)
BusSchedule ==
    \E dt \in 0..MaxDt, target \in Targets, echo \in Echoes :
        /\ bus_seq < MaxEvents
        /\ bus_seq' = bus_seq + 1
        /\ bus_heap' = bus_heap \cup
              {Event(bus_clock_ms + dt, bus_seq + 1, target, echo, 0)}
        /\ bus_last' = [call |-> BusCall("schedule", dt, target, bus_seq + 1,
                                         PendingFor(bus_heap, target) = 0),
                        prev |-> bus_last.call]
        /\ UNCHANGED <<bus_clock_ms, bus_log, bus_ticks>>
        /\ UNCHANGED <<tkVars, connVars, pgVars, erpVars, twinVars>>

BusTickApply(dt, out) ==
    /\ bus_clock_ms' = bus_clock_ms + dt
    /\ bus_ticks' = bus_ticks + 1
    /\ bus_heap' = out.heap
    /\ bus_log' = out.log
    /\ bus_seq' = out.seq
    /\ bus_last' = [call |-> BusCall("tick", dt, "", 0, TRUE),
                    prev |-> bus_last.call]
    /\ UNCHANGED <<tkVars, connVars, pgVars, erpVars, twinVars>>

\* EventBus.tick(dt_ms)
BusTick ==
    \E dt \in 0..MaxDt :
        /\ bus_ticks < MaxBusTicks
        /\ BusTickApply(dt,
              Drain(Due(bus_heap, bus_clock_ms + dt),
                    bus_heap \ Due(bus_heap, bus_clock_ms + dt),
                    bus_log, bus_seq, bus_clock_ms + dt, bus_ticks + 1))

\* The tickets twin as constructed with no seeded ticket, unused.
IdleTwin ==
    /\ tk_clock_ms = 0
    /\ tk_last = [op |-> "init", id |-> 0, arg |-> "", ok |-> TRUE, pre |-> NoTicket]
    /\ tickets = << >>
    /\ metadata = << >>
    /\ ticket_seq = 1

InitBus ==
    /\ IdleBus
    /\ IdleTwin
    /\ IdleConn
    /\ IdlePage
    /\ IdleErp
    /\ IdleTwins

NextBus ==
    \/ BusSchedule
    \/ BusTick

SpecBus == InitBus /\ [][NextBus]_vars

-----------------------------------------------------------------------------
(* C5, C6, C7 *)

Delivered == {bus_log[i].ev : i \in DOMAIN bus_log}

\* C5: over the whole run events are delivered in increasing lexicographic
\* order of (time_ms, seq): an earlier due time goes first, and events due
\* at the same time go in the order they were scheduled.
C5_DeliveryOrder ==
    \A i, j \in DOMAIN bus_log :
        i < j =>
            \/ bus_log[i].ev.time_ms < bus_log[j].ev.time_ms
            \/ /\ bus_log[i].ev.time_ms = bus_log[j].ev.time_ms
               /\ bus_log[i].ev.seq < bus_log[j].ev.seq

\* An event scheduled later but due earlier was delivered first, and two
\* events due at the same time were delivered as well.
C5_Witness ==
    /\ \E i, j \in DOMAIN bus_log :
          i < j /\ bus_log[i].ev.seq > bus_log[j].ev.seq
    /\ \E i, j \in DOMAIN bus_log :
          i < j /\ bus_log[i].ev.time_ms = bus_log[j].ev.time_ms

DeliveredTo(target, tick) ==
    Cardinality({i \in DOMAIN bus_log :
                    bus_log[i].tick = tick /\ bus_log[i].ev.target = target})

\* The events for target that handlers scheduled during the given tick.
ScheduledInto(target, tick) ==
    {e \in bus_heap \cup Delivered : e.born = tick /\ e.target = target}

\* schedule(dt, T, p) with nothing pending for T, directly followed by a
\* tick during which no handler scheduled a further event for T.
ScheduleThenTick ==
    /\ bus_last.call.op = "tick"
    /\ bus_last.prev.op = "schedule"
    /\ bus_last.prev.idle
    /\ ScheduledInto(bus_last.prev.target, bus_ticks) = {}

C7_NoReentry ==
    /\ \A i \in DOMAIN bus_log :
          bus_log[i].ev.born > 0 => bus_log[i].tick > bus_log[i].ev.born
    /\ \A e \in bus_heap : e.born > 0 => e.born = bus_ticks
    /\ \A i, j \in DOMAIN bus_log :
          i # j => bus_log[i].ev.seq # bus_log[j].ev.seq
    /\ \A n \in 1..bus_seq :
          Cardinality({e \in bus_heap : e.seq = n})
            + Cardinality({i \in DOMAIN bus_log : bus_log[i].ev.seq = n}) = 1

\* A follow-up scheduled during the first tick was delivered by the second.
C7_Witness ==
    \E i \in DOMAIN bus_log :
        /\ bus_log[i].ev.born = 1
        /\ bus_log[i].tick = 2
        /\ \E j \in 1..(i - 1) :
              /\ bus_log[j].tick = 1
              /\ bus_log[j].ev.echo = bus_log[i].ev.target

-----------------------------------------------------------------------------
(* Cursor pagination of the list operations *)

\* Strings are sequences of characters; None is kept apart from "".
NoneCursor == <<"None">>

DigitChars == <<"0", "1", "2", "3", "4", "5", "6", "7", "8", "9">>

DigitSet == {DigitChars[i] : i \in 1..10}

DigitValue(c) == CHOOSE v \in 0..9 : DigitChars[v + 1] = c

Whitespace == {" "}

OfsPrefix == <<"o", "f", "s", ":">>

Min(a, b) == IF a < b THEN a ELSE b

Max(a, b) == IF a > b THEN a ELSE b

\* str(n) for n >= 0
RECURSIVE Decimal(_)
Decimal(n) ==
    IF n < 10
    THEN <<DigitChars[n + 1]>>
    ELSE Append(Decimal(n \div 10), DigitChars[(n % 10) + 1])

\* _encode_cursor(offset)
EncodeCursor(offset) == OfsPrefix \o Decimal(Max(0, offset))

\* str.strip() as int() applies it to its argument
RECURSIVE Strip(_)
Strip(s) ==
    IF s # << >> /\ Head(s) \in Whitespace
    THEN Strip(Tail(s))
    ELSE IF s # << >> /\ s[Len(s)] \in Whitespace
         THEN Strip(SubSeq(s, 1, Len(s) - 1))
         ELSE s

\* The digits part of an int() literal: digits, single underscores between.
IntDigitsOk(u) ==
    /\ u # << >>
    /\ u[1] \in DigitSet
    /\ u[Len(u)] \in DigitSet
    /\ \A i \in 1..Len(u) : u[i] \in DigitSet \cup {"_"}
    /\ \A i \in 1..(Len(u) - 1) : ~(u[i] = "_" /\ u[i + 1] = "_")

RECURSIVE IntDigitsValue(_, _)
IntDigitsValue(u, acc) ==
    IF u = << >>
    THEN acc
    ELSE IF Head(u) = "_"
         THEN IntDigitsValue(Tail(u), acc)
         ELSE IntDigitsValue(Tail(u), acc * 10 + DigitValue(Head(u)))

IntSigned(negative, u) ==
    IF IntDigitsOk(u)
    THEN [ok |-> TRUE,
          value |-> IF negative THEN 0 - IntDigitsValue(u, 0) ELSE IntDigitsValue(u, 0)]
    ELSE [ok |-> FALSE, value |-> 0]

IntStripped(t) ==
    IF t # << >> /\ t[1] \in {"+", "-"}
    THEN IntSigned(t[1] = "-", Tail(t))
    ELSE IntSigned(FALSE, t)

\* int(text): ValueError is ok = FALSE
PyInt(text) == IntStripped(Strip(text))

StartsWithOfs(cursor) ==
    Len(cursor) >= 4 /\ SubSeq(cursor, 1, 4) = OfsPrefix

DecodeTail(parsed) ==
    IF parsed.ok
    THEN [ok |-> TRUE, value |-> Max(0, parsed.value)]
    ELSE [ok |-> FALSE, value |-> 0]

\* "if not cursor": None and "" are no cursor.
NoCursor(cursor) == cursor = NoneCursor \/ cursor = << >>

\* _decode_cursor(cursor)
DecodeCursor(cursor) ==
    IF NoCursor(cursor)
    THEN [ok |-> TRUE, value |-> 0]
    ELSE IF ~StartsWithOfs(cursor)
         THEN [ok |-> FALSE, value |-> 0]
         ELSE DecodeTail(PyInt(SubSeq(cursor, 5, Len(cursor))))

DEFAULT_LIMIT == 25

MAX_LIMIT == 200

QUERY_DEFAULT_LIMIT == 20

NoLimit == [none |-> TRUE, n |-> 0]

\* _normalize_limit(limit, default, max_limit)
NormalizeLimit(limit, default, max_limit) ==
    IF limit.none
    THEN default
    ELSE IF limit.n < 1 THEN 1 ELSE Min(max_limit, limit.n)

\* rows[start : start + page_limit]
SliceBroken(rows, start, page_limit) ==
    IF start + 1 >= Len(rows)
    THEN << >>
    ELSE SubSeq(rows, start + 2, Min(Len(rows), start + page_limit))

Slice(rows, start, page_limit) ==
    IF start >= Len(rows)
    THEN << >>
    ELSE SubSeq(rows, start + 1, Min(Len(rows), start + page_limit))

Rows(n) == [i \in 1..n |-> i]

PageResult(ok, err, sliced, total, next_cursor, legacy, clock) ==
    [ok |-> ok, err |-> err, rows |-> sliced, count |-> Len(sliced),
     total |-> total, next_cursor |-> next_cursor,
     has_more |-> next_cursor # NoneCursor, legacy |-> legacy,
     clock |-> clock, index |-> 0]

\* The page that starts at row offset start.
PageFrom(rows, start, page_limit, clock) ==
    PageResult(TRUE, "", Slice(rows, start, page_limit), Len(rows),
               IF start + page_limit < Len(rows)
               THEN EncodeCursor(start + page_limit)
               ELSE NoneCursor,
               FALSE, clock)

PageDecoded(rows, decoded, page_limit, err, clock) ==
    IF decoded.ok
    THEN PageFrom(rows, decoded.value, page_limit, clock)
    ELSE PageResult(FALSE, err, << >>, 0, NoneCursor, FALSE, clock)

\* TicketsSim.list over n tickets that all match the filters. Building each
\* row calls _meta, which reads the twin clock twice; with no argument given
\* the whole list is returned unpaged; a bad cursor raises ValueError.
TicketsList(n, limit, cursor, plain, clock) ==
    IF plain /\ limit.none /\ cursor = NoneCursor
    THEN PageResult(TRUE, "", Rows(n), n, NoneCursor, TRUE, clock + 2 * n)
    ELSE PageDecoded(Rows(n), DecodeCursor(cursor),
                     NormalizeLimit(limit, DEFAULT_LIMIT, MAX_LIMIT),
                     "ValueError", clock + 2 * n)

\* ErpSim.list_invoices: _page_rows over the n matching invoices.
ErpListInvoices(n, limit, cursor, clock) ==
    PageDecoded(Rows(n), DecodeCursor(cursor),
                NormalizeLimit(limit, DEFAULT_LIMIT, MAX_LIMIT),
                "invalid_cursor", clock)

\* DatabaseSim.query over n matching rows.
DbQuery(n, limit, offset, cursor, clock) ==
    PageDecoded(Rows(n),
                IF ~NoCursor(cursor)
                THEN DecodeCursor(cursor)
                ELSE [ok |-> TRUE, value |-> Max(0, offset)],
                NormalizeLimit(limit, QUERY_DEFAULT_LIMIT, MAX_LIMIT),
                "db.invalid_cursor", clock)

PageList(req, cursor, clock) ==
    CASE req.kind = "tickets.list" ->
            TicketsList(req.n, req.limit, cursor, req.plain, clock)
      [] req.kind = "erp.list_invoices" ->
            ErpListInvoices(req.n, req.limit, cursor, clock)
      [] OTHER ->
            DbQuery(req.n, req.limit, req.offset, cursor, clock)

LimitInputs ==
    {NoLimit} \cup {[none |-> FALSE, n |-> k] : k \in {-1, 0, 1, 2, 5, 300}}

OffsetInputs == {-1, 0, 2}

Requests ==
    {[kind |-> "tickets.list", n |-> n, limit |-> l, offset |-> 0, plain |-> p] :
        n \in 0..MaxRows, l \in LimitInputs, p \in BOOLEAN}
    \cup
    {[kind |-> "erp.list_invoices", n |-> n, limit |-> l, offset |-> 0, plain |-> FALSE] :
        n \in 0..MaxRows, l \in LimitInputs}
    \cup
    {[kind |-> "db.query", n |-> n, limit |-> l, offset |-> o, plain |-> FALSE] :
        n \in 0..MaxRows, l \in LimitInputs, o \in OffsetInputs}

\* Cursor strings a caller may write.
CursorInputs ==
    {OfsPrefix \o <<"-", "5">>, OfsPrefix \o <<" ", "7">>,
     OfsPrefix \o <<"+", "3">>, <<"a", "b", "c">>,
     OfsPrefix \o <<"1">>, OfsPrefix \o <<"1", "2">>, OfsPrefix, << >>,
     OfsPrefix \o <<"1", "_", "0">>, OfsPrefix \o <<"7", " ">>,
     OfsPrefix \o <<"1", ".", "5">>, <<"O", "F", "S", ":", "1">>,
     <<" ">> \o OfsPrefix \o <<"1">>, OfsPrefix \o <<"-", "-", "1">>,
     OfsPrefix \o <<"1", "_">>, <<"3">>}

PageWalkApply(res) ==
    /\ pg_seen' = pg_seen \o res.rows
    /\ pg_cursor' = res.next_cursor
    /\ pg_done' = (res.next_cursor = NoneCursor)
    /\ pg_page' = [res EXCEPT !.index = pg_page.index + 1]
    /\ pg_clock' = res.clock
    /\ UNCHANGED <<pg_req, pg_probe>>
    /\ UNCHANGED <<tkVars, connVars, busVars, erpVars, twinVars>>

\* The next call of a walk: the same request with the cursor last returned.
PageWalk ==
    /\ ~pg_done
    /\ PageWalkApply(PageList(pg_req, pg_cursor, pg_clock))

PageProbeApply(cursor, res) ==
    /\ pg_probe' = [made |-> pg_probe.made + 1, cursor |-> cursor,
                    ok |-> res.ok, err |-> res.err, rows |-> res.rows,
                    clock_before |-> pg_clock]
    /\ pg_clock' = res.clock
    /\ UNCHANGED <<pg_req, pg_cursor, pg_seen, pg_done, pg_page>>
    /\ UNCHANGED <<tkVars, connVars, busVars, erpVars, twinVars>>

\* A call of the same list operation with a cursor the caller wrote.
PageProbe ==
    \E cursor \in CursorInputs :
        /\ pg_probe.made < MaxProbes
        /\ PageProbeApply(cursor, PageList(pg_req, cursor, pg_clock))

InitPage ==
    /\ pg_req \in Requests
    /\ IdleWalk
    /\ IdleTwin
    /\ IdleConn
    /\ IdleBus
    /\ IdleErp
    /\ IdleTwins

NextPage ==
    \/ PageWalk
    \/ PageProbe

SpecPage == InitPage /\ [][NextPage]_vars

-----------------------------------------------------------------------------
(* C8, C9 *)

WalkEnded == pg_done /\ ~pg_page.legacy

NoRowTwice ==
    \A i, j \in DOMAIN pg_seen : i # j => pg_seen[i] # pg_seen[j]

\* C8 as stated: a walk of any paginated list operation that starts
\* without a cursor visits exactly total rows, each matching row once, and
\* ends with has_more = false and no next_cursor.
C8_WalkVisitsTotal ==
    WalkEnded =>
        /\ pg_seen = Rows(pg_req.n)
        /\ Len(pg_seen) = pg_page.total
        /\ ~pg_page.has_more
        /\ pg_page.next_cursor = NoneCursor

\* C8 amended: a walk that starts without a cursor never sees a row twice, takes no
\* more calls than there are rows, and ends without error on a page with
\* has_more = false and no next_cursor, having visited in order every
\* matching row from the first one - for db.query from row offset on, so
\* all total rows only when offset is left at 0.
C8_WalkFromStart ==
    /\ NoRowTwice
    /\ pg_page.index <= Max(1, pg_req.n)
    /\ WalkEnded =>
          LET first == IF pg_req.kind = "db.query" THEN Max(0, pg_req.offset) ELSE 0
          IN
          /\ pg_page.ok
          /\ pg_page.total = pg_req.n
          /\ ~pg_page.has_more
          /\ pg_page.next_cursor = NoneCursor
          /\ Len(pg_seen) = Max(0, pg_req.n - first)
          /\ \A i \in DOMAIN pg_seen : pg_seen[i] = first + i

\* A db.query walk with offset 0 took three or more pages, one of them
\* fetched with the cursor ofs:10, and visited all total rows.
C8_Witness ==
    /\ WalkEnded
    /\ pg_req.kind = "db.query" /\ pg_req.offset = 0
    /\ pg_req.n > 10
    /\ pg_page.index >= 3
    /\ Len(pg_seen) = pg_page.total

\* ^ofs:\d+$
MatchesCursorRe(cursor) ==
    /\ Len(cursor) >= 5
    /\ StartsWithOfs(cursor)
    /\ \A i \in 5..Len(cursor) : cursor[i] \in DigitSet

\* C9: a list call with a cursor string that does not match ^ofs:\d+$ is
\* rejected with invalid_cursor and leaves the twin state unchanged.
C9_CursorRejected ==
    (pg_probe.made > 0 /\ ~MatchesCursorRe(pg_probe.cursor)) =>
        /\ ~pg_probe.ok
        /\ pg_probe.err = "invalid_cursor"
        /\ pg_clock = pg_probe.clock_before

-----------------------------------------------------------------------------
(* The ERP twin: purchase orders, invoices and payments *)

\* A money value a caller passes, in thousandths; num = FALSE is a value
\* float() does not take.
Money(m) == [num |-> TRUE, m |-> m]

NotANumber == [num |-> FALSE, m |-> 0]

MoneyInputs == {Money(-500), Money(495), Money(1000), NotANumber}

\* _money_to_cents(x) = int(round(float(x) * 100)), 0 when that raises. A
\* value halfway between two cents goes to either neighbour, depending on
\* its binary representation.
MoneyToCents(x) ==
    IF ~x.num
    THEN {0}
    ELSE IF x.m % 10 = 5
         THEN {x.m \div 10, (x.m \div 10) + 1}
         ELSE IF x.m % 10 < 5 THEN {x.m \div 10} ELSE {(x.m \div 10) + 1}

\* _cents_to_money(c) = round(c / 100.0, 2), in thousandths
CentsToMoney(c) == c * 10

\* Lines a caller passes; a line that names no item gets its line number.
LineInputs ==
    {<<[item_id |-> "1", qty |-> 2, unit_price |-> Money(495)]>>,
     <<[item_id |-> "1", qty |-> -1, unit_price |-> Money(1000)]>>,
     <<[item_id |-> "1", qty |-> 1, unit_price |-> NotANumber]>>}

\* The item and quantity of each stored line.
StoredLines(lines) ==
    [i \in DOMAIN lines |-> [item_id |-> lines[i].item_id, qty |-> lines[i].qty]]

LineItems(lines) == {lines[i].item_id : i \in DOMAIN lines}

\* {item_id: qty for line in lines}: the last line of an item wins.
QtyByItem(lines) ==
    [it \in LineItems(lines) |->
        lines[CHOOSE i \in DOMAIN lines :
                /\ lines[i].item_id = it
                /\ \A j \in DOMAIN lines : lines[j].item_id = it => j <= i].qty]

\* dict.get(item, 0)
QtyOf(by_item, it) == IF it \in DOMAIN by_item THEN by_item[it] ELSE 0

\* total_cents summed over the lines
RECURSIVE TotalCents(_)
TotalCents(lines) ==
    IF lines = << >>
    THEN {0}
    ELSE {Head(lines).qty * c + t :
            c \in MoneyToCents(Head(lines).unit_price),
            t \in TotalCents(Tail(lines))}

ErpCall(op, id, ok, err, paid_c, pre) ==
    [op |-> op, id |-> id, ok |-> ok, err |-> err, paid_c |-> paid_c, pre |-> pre]

\* The last call was none of create_po, submit_invoice, post_payment.
NoErpCall == ErpCall("init", 0, TRUE, "", 0, NoInvoice)

\* A call that raises MCPError before changing anything.
ErpReject(op, id, err) ==
    /\ erp_last' = ErpCall(op, id, FALSE, err, 0, NoInvoice)
    /\ erp_po_last' = NoPoCall
    /\ UNCHANGED <<erp_pos, erp_invoices, erp_po_seq, erp_inv_seq, erp_faulty,
                   erp_applied, erp_receipts, erp_rcpt_seq>>
    /\ UNCHANGED <<tkVars, connVars, busVars, pgVars, twinVars>>

PoStored(lines, total_cents) ==
    /\ erp_po_seq <= MaxPos
    /\ erp_pos' = Put(erp_pos, erp_po_seq,
          [vendor |-> "Acme", status |-> "OPEN",
           amount |-> CentsToMoney(total_cents),
           updated_ms |-> bus_clock_ms,
           lines |-> StoredLines(lines),
           received |-> [it \in LineItems(lines) |-> 0],
           last_three_way_match |-> NoMatch])
    /\ erp_po_seq' = erp_po_seq + 1
    /\ erp_last' = ErpCall("create_po", erp_po_seq, TRUE, "", 0, NoInvoice)
    /\ erp_po_last' = NoPoCall
    /\ UNCHANGED <<erp_invoices, erp_inv_seq, erp_faulty, erp_applied,
                   erp_receipts, erp_rcpt_seq>>
    /\ UNCHANGED <<tkVars, connVars, busVars, pgVars, twinVars>>

\* ErpSim.create_po(vendor, currency, lines), lines drawn from LineSet
CreatePo(LineSet) ==
    \E lines \in LineSet :
        \E total_cents \in TotalCents(lines) :
            PoStored(lines, total_cents)

ErpCreatePo ==
    CreatePo({<<[item_id |-> "1", qty |-> 2, unit_price |-> Money(495)]>>})

InvoiceStored(vendor, po_id, lines, total_cents) ==
    /\ erp_invoices' = Put(erp_invoices, erp_inv_seq,
          [po_id |-> po_id, vendor |-> vendor, status |-> "OPEN",
           amount |-> CentsToMoney(total_cents), paid_amount |-> 0,
           updated_ms |-> bus_clock_ms, lines |-> StoredLines(lines)])
    /\ erp_inv_seq' = erp_inv_seq + 1
    /\ erp_applied' = Put(erp_applied, erp_inv_seq, 0)
    /\ erp_pos' = [erp_pos EXCEPT ![po_id].status = "INVOICED",
                                  ![po_id].updated_ms = bus_clock_ms]
    /\ erp_last' = ErpCall("submit_invoice", erp_inv_seq, TRUE, "", 0, NoInvoice)
    /\ erp_po_last' = NoPoCall
    /\ UNCHANGED <<erp_po_seq, erp_faulty, erp_receipts, erp_rcpt_seq>>
    /\ UNCHANGED <<tkVars, connVars, busVars, pgVars, twinVars>>

\* ErpSim.submit_invoice(vendor, po_id, lines), lines drawn from LineSet
SubmitInvoice(LineSet) ==
    \E vendor \in {" ACME", "globex"}, po_id \in 1..(MaxPos + 1) :
        IF po_id \notin DOMAIN erp_pos
        THEN ErpReject("submit_invoice", 0, "unknown_po")
        ELSE IF StripLower(erp_pos[po_id].vendor) # StripLower(vendor)
             THEN ErpReject("submit_invoice", 0, "vendor_mismatch")
             ELSE \/ /\ erp_faulty
                     /\ ErpReject("submit_invoice", 0, "validation_error")
                  \/ /\ erp_inv_seq <= MaxInvoices
                     /\ \E lines \in LineSet :
                           \E total_cents \in TotalCents(lines) :
                               InvoiceStored(vendor, po_id, lines, total_cents)

ErpSubmitInvoice == SubmitInvoice(LineInputs)

\* min(paid_c, total_c)
ClampPaidBroken(paid_c, total_c) == paid_c

ClampPaid(paid_c, total_c) == Min(paid_c, total_c)

PaidStatus(status, paid_c, total_c) ==
    IF paid_c >= total_c
    THEN "PAID"
    ELSE IF paid_c > 0 THEN "PARTIALLY_PAID" ELSE status

PaymentApplied(id, paid_c, total_c) ==
    /\ erp_invoices' = [erp_invoices EXCEPT
          ![id].paid_amount = CentsToMoney(ClampPaid(paid_c, total_c)),
          ![id].updated_ms = bus_clock_ms,
          ![id].status = PaidStatus(@, paid_c, total_c)]
    /\ erp_applied' = [erp_applied EXCEPT ![id] = @ + 1]
    /\ erp_last' = ErpCall("post_payment", id, TRUE, "", paid_c, erp_invoices[id])
    /\ UNCHANGED <<erp_pos, erp_po_seq, erp_inv_seq, erp_faulty,
                   erp_receipts, erp_rcpt_seq, erp_po_last>>
    /\ UNCHANGED <<tkVars, connVars, busVars, pgVars, twinVars>>

RECURSIVE PaymentsApplied(_)
PaymentsApplied(counts) ==
    IF counts = << >> THEN 0 ELSE Head(counts) + PaymentsApplied(Tail(counts))

\* ErpSim.post_payment(invoice_id, amount)
ErpPostPayment ==
    \E id \in 1..(MaxInvoices + 1) :
        IF id \notin DOMAIN erp_invoices
        THEN ErpReject("post_payment", id, "unknown_invoice")
        ELSE \/ /\ erp_faulty
                /\ ErpReject("post_payment", id, "payment_rejected")
             \/ /\ PaymentsApplied(erp_applied) < MaxPayments
                /\ \E amount \in MoneyInputs :
                      \E had_c \in MoneyToCents(Money(erp_invoices[id].paid_amount)),
                         add_c \in MoneyToCents(amount),
                         total_c \in MoneyToCents(Money(erp_invoices[id].amount)) :
                         PaymentApplied(id, had_c + add_c, total_c)

\* ErpSim.__init__: empty stores; VEI_ERP_ERROR_RATE may switch error
\* injection on.
InitErp ==
    /\ erp_pos = << >>
    /\ erp_invoices = << >>
    /\ erp_po_seq = 1
    /\ erp_inv_seq = 1
    /\ erp_faulty \in BOOLEAN
    /\ erp_applied = << >>
    /\ erp_last = ErpCall("init", 0, TRUE, "", 0, NoInvoice)
    /\ erp_receipts = << >>
    /\ erp_rcpt_seq = 1
    /\ erp_po_last = NoPoCall
    /\ IdleTwin
    /\ IdleConn
    /\ IdleBus
    /\ IdlePage
    /\ IdleTwins

NextErp ==
    \/ ErpCreatePo
    \/ ErpSubmitInvoice
    \/ ErpPostPayment

SpecErp == InitErp /\ [][NextErp]_vars

-----------------------------------------------------------------------------
(* C10 *)

\* C10: once a payment has been applied to an invoice (and from the start
\* for an invoice with a positive amount), whatever the amounts paid, the
\* recorded paid amount is at most the invoice amount, and the status is
\* PAID whenever the paid amount has reached the invoice amount.
C10_PaidWithinAmount ==
    \A id \in DOMAIN erp_invoices :
        (erp_invoices[id].amount > 0 \/ erp_applied[id] > 0) =>
            /\ erp_invoices[id].paid_amount <= erp_invoices[id].amount
            /\ erp_invoices[id].paid_amount >= erp_invoices[id].amount =>
                  erp_invoices[id].status = "PAID"

\* A partially paid invoice was overpaid by the last payment: the recorded
\* paid amount stops at the invoice amount and the invoice is PAID.
C10_Witness ==
    /\ erp_last.op = "post_payment" /\ erp_last.ok
    /\ erp_last.pre.status = "PARTIALLY_PAID"
    /\ CentsToMoney(erp_last.paid_c) > erp_invoices[erp_last.id].amount
    /\ erp_invoices[erp_last.id].paid_amount = erp_invoices[erp_last.id].amount
    /\ erp_invoices[erp_last.id].status = "PAID"

-----------------------------------------------------------------------------
(* C12 *)

InvoiceRank(status) ==
    CASE status = "OPEN" -> 1
      [] status = "PARTIALLY_PAID" -> 2
      [] status = "PAID" -> 3
      [] OTHER -> 0

\* C12: under any sequence of post_payment calls an invoice's status only
\* moves forward along OPEN -> PARTIALLY_PAID -> PAID; it never returns to an
\* earlier status, so a PAID invoice stays PAID.
C12_InvoiceForwardOnly ==
    [][\A id \in DOMAIN erp_invoices :
          InvoiceRank(erp_invoices'[id].status) >= InvoiceRank(erp_invoices[id].status)]_vars

-----------------------------------------------------------------------------
(* Goods receipts and the three-way match (src/vei/router/erp.py) *)

MaxReceipts == 2

Item(item_id, qty, unit_price) ==
    [item_id |-> item_id, qty |-> qty, unit_price |-> unit_price]

\* Purchase orders of two items and of a negative quantity.
PoLineInputs ==
    {<<Item("1", 1, Money(1000)), Item("2", 1, Money(1000))>>,
     <<Item("1", -1, Money(1000))>>}

\* Invoices equal to an order, one cent and two cents above it, and of the
\* same amount with another quantity.
InvLineInputs ==
    {<<Item("1", 1, Money(1000)), Item("2", 1, Money(1000))>>,
     <<Item("1", 1, Money(1000)), Item("2", 1, Money(1010))>>,
     <<Item("1", 1, Money(1000)), Item("2", 1, Money(1020))>>,
     <<Item("1", 2, Money(1000))>>}

RcptLine(item_id, qty) == [item_id |-> item_id, qty |-> qty]

\* Receipts of part of an order, of a returned unit, of two items, of too
\* much on the second line, and of an item that was not ordered.
RcptLineInputs ==
    {<<RcptLine("1", 1)>>,
     <<RcptLine("1", -1)>>,
     <<RcptLine("1", 1), RcptLine("2", 1)>>,
     <<RcptLine("2", 1), RcptLine("1", 2)>>,
     <<RcptLine("9", 1)>>}

PoCall(op, ok, err, po_id, invoice_id, receipt_id, lines, status, pre) ==
    [op |-> op, ok |-> ok, err |-> err, po_id |-> po_id,
     invoice_id |-> invoice_id, receipt_id |-> receipt_id, lines |-> lines,
     status |-> status, pre |-> pre]

PoBefore(po_id) == IF po_id \in DOMAIN erp_pos THEN erp_pos[po_id] ELSE NoPo

\* receive_goods or match_three_way raising MCPError; receive_goods has by
\* then taken a receipt number unless the PO is unknown.
PoReject(op, po_id, invoice_id, receipt_id, lines, err, rcpt_seq) ==
    /\ erp_po_last' = PoCall(op, FALSE, err, po_id, invoice_id, receipt_id,
                             lines, "", PoBefore(po_id))
    /\ erp_rcpt_seq' = rcpt_seq
    /\ erp_last' = NoErpCall
    /\ UNCHANGED <<erp_pos, erp_invoices, erp_po_seq, erp_inv_seq, erp_faulty,
                   erp_applied, erp_receipts>>
    /\ UNCHANGED <<tkVars, connVars, busVars, pgVars, twinVars>>

ErpCreatePoItems == CreatePo(PoLineInputs)

ErpSubmitInvoiceItems ==
    SubmitInvoice({<<Item("1", 1, Money(1000)), Item("2", 1, Money(1000))>>})

\* new_total > item_to_ordered[item_id]
ExceedsBroken(new_total, ordered) == FALSE

Exceeds(new_total, ordered) == new_total > ordered

\* The loop over rcpt_lines: the first failing line ends it.
RECURSIVE ReceiveLines(_, _, _)
ReceiveLines(lines, ordered, received) ==
    IF lines = << >>
    THEN [err |-> "", received |-> received]
    ELSE IF Head(lines).item_id \notin DOMAIN ordered
         THEN [err |-> "unknown_item", received |-> received]
         ELSE IF Exceeds(QtyOf(received, Head(lines).item_id) + Head(lines).qty,
                         ordered[Head(lines).item_id])
              THEN [err |-> "qty_exceeds_po", received |-> received]
              ELSE ReceiveLines(Tail(lines), ordered,
                      Put(received, Head(lines).item_id,
                          QtyOf(received, Head(lines).item_id) + Head(lines).qty))

AllReceived(ordered, received) ==
    \A it \in DOMAIN ordered : QtyOf(received, it) >= ordered[it]

GoodsReceived(po_id, lines, ordered, r) ==
    IF r.err # ""
    THEN PoReject("receive_goods", po_id, 0, erp_rcpt_seq, lines, r.err,
                  erp_rcpt_seq + 1)
    ELSE /\ erp_receipts' = Put(erp_receipts, erp_rcpt_seq,
               [po_id |-> po_id, lines |-> lines, time_ms |-> bus_clock_ms])
         /\ erp_rcpt_seq' = erp_rcpt_seq + 1
         /\ erp_pos' = [erp_pos EXCEPT
               ![po_id].received = r.received,
               ![po_id].status = IF AllReceived(ordered, r.received)
                                 THEN "RECEIVED"
                                 ELSE "PARTIALLY_RECEIVED",
               ![po_id].updated_ms = bus_clock_ms]
         /\ erp_po_last' = PoCall("receive_goods", TRUE, "", po_id, 0,
                                  erp_rcpt_seq, lines, "", erp_pos[po_id])
         /\ erp_last' = NoErpCall
         /\ UNCHANGED <<erp_invoices, erp_po_seq, erp_inv_seq, erp_faulty,
                        erp_applied>>
         /\ UNCHANGED <<tkVars, connVars, busVars, pgVars, twinVars>>

\* ErpSim.receive_goods(po_id, lines), lines drawn from LineSet
ReceiveGoods(LineSet) ==
    \E po_id \in 1..(MaxPos + 1) :
        IF po_id \notin DOMAIN erp_pos
        THEN PoReject("receive_goods", po_id, 0, 0, << >>, "unknown_po",
                      erp_rcpt_seq)
        ELSE /\ erp_rcpt_seq <= MaxReceipts
             /\ \E lines \in LineSet :
                   GoodsReceived(po_id, lines, QtyByItem(erp_pos[po_id].lines),
                      ReceiveLines(lines, QtyByItem(erp_pos[po_id].lines),
                                   erp_pos[po_id].received))

ErpReceiveGoods == ReceiveGoods(RcptLineInputs)

Abs(n) == IF n < 0 THEN -n ELSE n

\* abs(po_amount_c - inv_amount_c) <= 1
AmountOk(po_amount_c, inv_amount_c) == Abs(po_amount_c - inv_amount_c) <= 1

\* (pq != iq) or (rcpt is not None and iq > rq)
QtyMismatch(pq, iq, rq, has_rcpt) == pq # iq \/ (has_rcpt /\ iq > rq)

QtyMismatches(po_qty, inv_qty, rcpt_qty, has_rcpt) ==
    {it \in DOMAIN po_qty \cup DOMAIN inv_qty :
        QtyMismatch(QtyOf(po_qty, it), QtyOf(inv_qty, it), QtyOf(rcpt_qty, it),
                    has_rcpt)}

MatchStatus(amount_ok, qty_mismatches) ==
    IF amount_ok /\ qty_mismatches = {} THEN "MATCH" ELSE "MISMATCH"

\* self.receipts.get(receipt_id) if receipt_id else None
ReceiptFound(receipt_id) == receipt_id # 0 /\ receipt_id \in DOMAIN erp_receipts

ReceiptLines(receipt_id) ==
    IF ReceiptFound(receipt_id) THEN erp_receipts[receipt_id].lines ELSE << >>

Matched(po_id, invoice_id, receipt_id, status) ==
    /\ erp_pos' = [erp_pos EXCEPT
          ![po_id].last_three_way_match =
              [invoice_id |-> invoice_id, receipt_id |-> receipt_id,
               status |-> status],
          ![po_id].updated_ms = bus_clock_ms]
    /\ erp_po_last' = PoCall("match_three_way", TRUE, "", po_id, invoice_id,
                             receipt_id, << >>, status, NoPo)
    /\ erp_last' = NoErpCall
    /\ UNCHANGED <<erp_invoices, erp_po_seq, erp_inv_seq, erp_faulty,
                   erp_applied, erp_receipts, erp_rcpt_seq>>
    /\ UNCHANGED <<tkVars, connVars, busVars, pgVars, twinVars>>

\* ErpSim.match_three_way(po_id, invoice_id, receipt_id); receipt_id 0 is None
ErpMatchThreeWay ==
    \E po_id \in 1..(MaxPos + 1), invoice_id \in 1..(MaxInvoices + 1) :
        IF po_id \notin DOMAIN erp_pos \/ invoice_id \notin DOMAIN erp_invoices
        THEN PoReject("match_three_way", po_id, invoice_id, 0, << >>,
                      "unknown_ref", erp_rcpt_seq)
        ELSE \E receipt_id \in 0..MaxReceipts :
                \E po_amount_c \in MoneyToCents(Money(erp_pos[po_id].amount)),
                   inv_amount_c \in MoneyToCents(Money(erp_invoices[invoice_id].amount)) :
                   Matched(po_id, invoice_id, receipt_id,
                      MatchStatus(AmountOk(po_amount_c, inv_amount_c),
                         QtyMismatches(QtyByItem(erp_pos[po_id].lines),
                                       QtyByItem(erp_invoices[invoice_id].lines),
                                       QtyByItem(ReceiptLines(receipt_id)),
                                       ReceiptFound(receipt_id))))

NextProcure ==
    \/ ErpCreatePoItems
    \/ ErpReceiveGoods
    \/ ErpSubmitInvoiceItems

SpecProcure == InitErp /\ [][NextProcure]_vars

\* The receipts and the invoices of a three-way match: a receipt of the whole
\* order and a receipt of one of its two items.
ErpReceiveGoodsMatch ==
    ReceiveGoods({<<RcptLine("1", 1), RcptLine("2", 1)>>, <<RcptLine("1", 1)>>})

ErpSubmitInvoiceMatch == SubmitInvoice(InvLineInputs)

\* The ERP twin after create_po("Acme", "USD", lines) of an order of two
\* items at 1.00 each.
InitMatch ==
    /\ erp_pos = <<[vendor |-> "Acme", status |-> "OPEN", amount |-> CentsToMoney(200),
                    updated_ms |-> 0,
                    lines |-> <<RcptLine("1", 1), RcptLine("2", 1)>>,
                    received |-> [it \in {"1", "2"} |-> 0],
                    last_three_way_match |-> NoMatch]>>
    /\ erp_invoices = << >>
    /\ erp_po_seq = 2
    /\ erp_inv_seq = 1
    /\ erp_faulty \in BOOLEAN
    /\ erp_applied = << >>
    /\ erp_last = ErpCall("create_po", 1, TRUE, "", 0, NoInvoice)
    /\ erp_receipts = << >>
    /\ erp_rcpt_seq = 1
    /\ erp_po_last = NoPoCall
    /\ IdleTwin
    /\ IdleConn
    /\ IdleBus
    /\ IdlePage
    /\ IdleTwins

NextMatch ==
    \/ ErpReceiveGoodsMatch
    \/ ErpSubmitInvoiceMatch
    \/ ErpMatchThreeWay

SpecMatch == InitMatch /\ [][NextMatch]_vars

PoRank(status) ==
    CASE status = "OPEN" -> 1
      [] status = "PARTIALLY_RECEIVED" -> 2
      [] status = "RECEIVED" -> 3
      [] status = "INVOICED" -> 4
      [] OTHER -> 0

\* C11: under any interleaving of receive_goods and submit_invoice calls a
\* purchase order's status only moves forward along OPEN ->
\* PARTIALLY_RECEIVED -> RECEIVED -> INVOICED; an INVOICED order stays
\* INVOICED.
C11_PoForwardOnly ==
    [][\A id \in DOMAIN erp_pos :
          PoRank(erp_pos'[id].status) >= PoRank(erp_pos[id].status)]_vars

\* The quantity a receive_goods call brings for an item, over all its lines.
RECURSIVE LineTotal(_, _)
LineTotal(lines, it) ==
    IF lines = << >>
    THEN 0
    ELSE (IF Head(lines).item_id = it THEN Head(lines).qty ELSE 0)
         + LineTotal(Tail(lines), it)

Ordered(po) == QtyByItem(po.lines)

\* A goods receipt has been accepted on the order.
HasReceipt(po_id) ==
    \E r \in DOMAIN erp_receipts : erp_receipts[r].po_id = po_id

ReceivedWithinOrdered(po) ==
    \A it \in DOMAIN Ordered(po) : QtyOf(po.received, it) <= Ordered(po)[it]

\* The last call was receive_goods on a known order whose lines all name
\* items of the order and would bring some item above its ordered quantity.
WouldExceed ==
    /\ erp_po_last.op = "receive_goods"
    /\ erp_po_last.pre # NoPo
    /\ LineItems(erp_po_last.lines) \subseteq DOMAIN Ordered(erp_po_last.pre)
    /\ \E it \in LineItems(erp_po_last.lines) :
          QtyOf(erp_po_last.pre.received, it) + LineTotal(erp_po_last.lines, it)
             > Ordered(erp_po_last.pre)[it]

RejectedChangesNothing ==
    (erp_po_last.op = "receive_goods" /\ erp_po_last.err = "qty_exceeds_po")
       => /\ erp_pos[erp_po_last.po_id].received = erp_po_last.pre.received
          /\ erp_po_last.receipt_id \notin DOMAIN erp_receipts

\* C13: for every purchase order and item the cumulative received quantity
\* never exceeds the ordered quantity after receive_goods calls; a call that
\* would exceed it is rejected with qty_exceeds_po, and a call rejected with
\* qty_exceeds_po changes no received quantity.
C13_ReceivedWithinOrdered ==
    /\ \A id \in DOMAIN erp_pos : ReceivedWithinOrdered(erp_pos[id])
    /\ WouldExceed => (~erp_po_last.ok /\ erp_po_last.err = "qty_exceeds_po")
    /\ RejectedChangesNothing

\* C13 (amended): the same for every item ordered with a quantity of zero or
\* more; an item ordered with a negative quantity starts with 0 received,
\* above what was ordered.
C13_ReceivedWithinOrderedNonNegative ==
    /\ \A id \in DOMAIN erp_pos :
          \A it \in DOMAIN Ordered(erp_pos[id]) :
             Ordered(erp_pos[id])[it] >= 0
                => QtyOf(erp_pos[id].received, it) <= Ordered(erp_pos[id])[it]
    /\ WouldExceed => (~erp_po_last.ok /\ erp_po_last.err = "qty_exceeds_po")
    /\ RejectedChangesNothing

\* An order with goods already received rejects a receipt that would bring
\* an item above its ordered quantity.
C13_Witness ==
    /\ WouldExceed
    /\ erp_po_last.err = "qty_exceeds_po"
    /\ \E it \in DOMAIN erp_po_last.pre.received : erp_po_last.pre.received[it] > 0
    /\ HasReceipt(erp_po_last.po_id)

MatchedPo == erp_pos[erp_po_last.po_id]

MatchedInvoice == erp_invoices[erp_po_last.invoice_id]

\* The quantities of the receipt the caller named; nothing is received under
\* an id that names no stored receipt.
SuppliedReceiptQty == QtyByItem(ReceiptLines(erp_po_last.receipt_id))

\* C14: match_three_way returns MATCH exactly when the PO and invoice amounts
\* differ by at most 1 cent, every item's PO quantity equals its invoiced
\* quantity and, if a receipt is supplied, no item's invoiced quantity
\* exceeds its received quantity; in every other case it returns MISMATCH.
C14_MatchExactly ==
    (erp_po_last.op = "match_three_way" /\ erp_po_last.ok)
       => /\ erp_po_last.status \in {"MATCH", "MISMATCH"}
          /\ erp_po_last.status = "MATCH"
                <=> /\ Abs(MatchedPo.amount - MatchedInvoice.amount) <= 10
                    /\ \A it \in LineItems(MatchedPo.lines) \cup LineItems(MatchedInvoice.lines) :
                          QtyOf(QtyByItem(MatchedPo.lines), it)
                             = QtyOf(QtyByItem(MatchedInvoice.lines), it)
                    /\ erp_po_last.receipt_id # 0
                          => \A it \in LineItems(MatchedInvoice.lines) :
                                QtyOf(QtyByItem(MatchedInvoice.lines), it)
                                   <= QtyOf(SuppliedReceiptQty, it)

-----------------------------------------------------------------------------
(* Identity twin (src/vei/router/identity.py) *)

MaxResets == 2

UserStatuses == {"STAGED", "PROVISIONED", "ACTIVE", "SUSPENDED", "DEPROVISIONED"}

\* The seeded groups, in seed order, and ids that name nothing.
SeededGroups == <<"GRP-security", "GRP-it">>

UserIdInputs == {"USR-9001", "USR-9002", "USR-0"}

GroupIdInputs == {"GRP-security", "GRP-it", "GRP-0"}

UserSeed(status, groups) == [status |-> status, groups |-> groups]

GroupSeed(members) == [members |-> members]

Seeds(u1, u2, g1, g2) ==
    [users |-> [u \in {"USR-9001", "USR-9002"} |-> IF u = "USR-9001" THEN u1 ELSE u2],
     groups |-> [g \in {"GRP-security", "GRP-it"} |->
                    IF g = "GRP-security" THEN g1 ELSE g2]]

\* _default_user_seeds, _default_group_seeds
DefaultSeeds ==
    Seeds(UserSeed("ACTIVE", <<"GRP-security">>), UserSeed("SUSPENDED", <<"GRP-it">>),
          GroupSeed(<<"USR-9001">>), GroupSeed(<<"USR-9002">>))

\* scenario.identity_users and scenario.identity_groups of an inline
\* scenario: users in other statuses, a group naming a member the user does
\* not list, and a user listing a group that does not name it.
ScenarioSeeds ==
    {Seeds(UserSeed("DEPROVISIONED", << >>), UserSeed("STAGED", << >>),
           GroupSeed(<<"USR-9001">>), GroupSeed(<< >>)),
     Seeds(UserSeed("PROVISIONED", <<"GRP-it">>), UserSeed("ACTIVE", << >>),
           GroupSeed(<< >>), GroupSeed(<< >>))}

InSeq(x, seq) == \E i \in DOMAIN seq : seq[i] = x

\* if x not in seq: seq.append(x)
AppendNew(seq, x) == IF InSeq(x, seq) THEN seq ELSE Append(seq, x)

\* [y for y in seq if y != x]
RECURSIVE Without(_, _)
Without(seq, x) ==
    IF seq = << >>
    THEN << >>
    ELSE IF Head(seq) = x
         THEN Without(Tail(seq), x)
         ELSE <<Head(seq)>> \o Without(Tail(seq), x)

\* _sync_relationships, one group: every member that is a user gets the group.
RECURSIVE SyncMembers(_, _, _)
SyncMembers(users, gid, members) ==
    IF members = << >>
    THEN users
    ELSE IF Head(members) \notin DOMAIN users
         THEN SyncMembers(users, gid, Tail(members))
         ELSE SyncMembers(
                 [users EXCEPT ![Head(members)].groups = AppendNew(@, gid)],
                 gid, Tail(members))

\* _sync_relationships over the groups in order
RECURSIVE SyncRelationships(_, _, _)
SyncRelationships(users, groups, order) ==
    IF order = << >>
    THEN users
    ELSE SyncRelationships(SyncMembers(users, Head(order), groups[Head(order)].members),
                           groups, Tail(order))

OktaCall(op, user_id, ok, err, pre) ==
    [op |-> op, user_id |-> user_id, ok |-> ok, err |-> err, pre |-> pre]

StatusBefore(user_id) ==
    IF user_id \in DOMAIN okta_users THEN okta_users[user_id].status ELSE ""

\* A call that raises MCPError, or returns changed: False.
OktaKept(op, user_id, ok, err) ==
    /\ okta_last' = OktaCall(op, user_id, ok, err, StatusBefore(user_id))
    /\ UNCHANGED <<okta_users, okta_groups, okta_reset_seq>>
    /\ UNCHANGED notOkta

\* self.users[user_id] = user.model_copy(update={"status": status})
StatusSet(op, user_id, status) ==
    /\ okta_users' = [okta_users EXCEPT ![user_id].status = status]
    /\ okta_last' = OktaCall(op, user_id, TRUE, "", StatusBefore(user_id))
    /\ UNCHANGED <<okta_groups, okta_reset_seq>>
    /\ UNCHANGED notOkta

\* if user.status == "DEPROVISIONED": raise
ActivateRefusedBroken(status) == FALSE

ActivateRefused(status) == status = "DEPROVISIONED"

\* OktaSim.activate_user(user_id)
OktaActivateUser ==
    \E user_id \in UserIdInputs :
        IF user_id \notin DOMAIN okta_users
        THEN OktaKept("activate_user", user_id, FALSE, "okta.user_not_found")
        ELSE IF okta_users[user_id].status = "ACTIVE"
             THEN OktaKept("activate_user", user_id, TRUE, "")
             ELSE IF ActivateRefused(okta_users[user_id].status)
                  THEN OktaKept("activate_user", user_id, FALSE, "okta.invalid_state")
                  ELSE StatusSet("activate_user", user_id, "ACTIVE")

\* OktaSim.deactivate_user(user_id, reason)
OktaDeactivateUser ==
    \E user_id \in UserIdInputs :
        IF user_id \notin DOMAIN okta_users
        THEN OktaKept("deactivate_user", user_id, FALSE, "okta.user_not_found")
        ELSE IF okta_users[user_id].status = "DEPROVISIONED"
             THEN OktaKept("deactivate_user", user_id, FALSE, "okta.invalid_state")
             ELSE StatusSet("deactivate_user", user_id, "DEPROVISIONED")

\* OktaSim.suspend_user(user_id, reason)
OktaSuspendUser ==
    \E user_id \in UserIdInputs :
        IF user_id \notin DOMAIN okta_users
        THEN OktaKept("suspend_user", user_id, FALSE, "okta.user_not_found")
        ELSE IF okta_users[user_id].status = "DEPROVISIONED"
             THEN OktaKept("suspend_user", user_id, FALSE, "okta.invalid_state")
             ELSE IF okta_users[user_id].status = "SUSPENDED"
                  THEN OktaKept("suspend_user", user_id, TRUE, "")
                  ELSE StatusSet("suspend_user", user_id, "SUSPENDED")

\* OktaSim.unsuspend_user(user_id)
OktaUnsuspendUser ==
    \E user_id \in UserIdInputs :
        IF user_id \notin DOMAIN okta_users
        THEN OktaKept("unsuspend_user", user_id, FALSE, "okta.user_not_found")
        ELSE IF okta_users[user_id].status # "SUSPENDED"
             THEN OktaKept("unsuspend_user", user_id, FALSE, "okta.invalid_state")
             ELSE StatusSet("unsuspend_user", user_id, "ACTIVE")

\* OktaSim.reset_password(user_id)
OktaResetPassword ==
    \E user_id \in UserIdInputs :
        IF user_id \notin DOMAIN okta_users
        THEN OktaKept("reset_password", user_id, FALSE, "okta.user_not_found")
        ELSE IF okta_users[user_id].status \notin {"ACTIVE", "PROVISIONED", "SUSPENDED"}
             THEN OktaKept("reset_password", user_id, FALSE, "okta.invalid_state")
             ELSE /\ okta_reset_seq <= MaxResets
                  /\ okta_reset_seq' = okta_reset_seq + 1
                  /\ okta_last' = OktaCall("reset_password", user_id, TRUE, "",
                                           StatusBefore(user_id))
                  /\ UNCHANGED <<okta_users, okta_groups>>
                  /\ UNCHANGED notOkta

\* OktaSim.assign_group(user_id, group_id)
OktaAssignGroup ==
    \E user_id \in UserIdInputs :
        IF user_id \notin DOMAIN okta_users
        THEN OktaKept("assign_group", user_id, FALSE, "okta.user_not_found")
        ELSE \E group_id \in GroupIdInputs :
                IF group_id \notin DOMAIN okta_groups
                THEN OktaKept("assign_group", user_id, FALSE, "okta.group_not_found")
                ELSE /\ okta_groups' = [okta_groups EXCEPT
                           ![group_id].members = AppendNew(@, user_id)]
                     /\ okta_users' = [okta_users EXCEPT
                           ![user_id].groups = AppendNew(@, group_id)]
                     /\ okta_last' = OktaCall("assign_group", user_id, TRUE, "",
                                              StatusBefore(user_id))
                     /\ UNCHANGED okta_reset_seq
                     /\ UNCHANGED notOkta

\* OktaSim.unassign_group(user_id, group_id)
OktaUnassignGroup ==
    \E user_id \in UserIdInputs :
        IF user_id \notin DOMAIN okta_users
        THEN OktaKept("unassign_group", user_id, FALSE, "okta.user_not_found")
        ELSE \E group_id \in GroupIdInputs :
                IF group_id \notin DOMAIN okta_groups
                THEN OktaKept("unassign_group", user_id, FALSE, "okta.group_not_found")
                ELSE /\ okta_users' = [okta_users EXCEPT
                           ![user_id].groups = Without(@, group_id)]
                     /\ okta_groups' = [okta_groups EXCEPT
                           ![group_id].members = Without(@, user_id)]
                     /\ okta_last' = OktaCall("unassign_group", user_id, TRUE, "",
                                              StatusBefore(user_id))
                     /\ UNCHANGED okta_reset_seq
                     /\ UNCHANGED notOkta

\* OktaSim.__init__: users and groups from the seeds, then _sync_relationships.
InitOkta ==
    /\ \E seeds \in {DefaultSeeds} \cup ScenarioSeeds :
          /\ okta_groups = seeds.groups
          /\ okta_users = SyncRelationships(seeds.users, seeds.groups, SeededGroups)
    /\ okta_reset_seq = 1
    /\ okta_last = OktaCall("init", "", TRUE, "", "")
    /\ IdleTwin
    /\ IdleConn
    /\ IdleBus
    /\ IdlePage
    /\ IdleErp
    /\ IdleButOkta

NextOkta ==
    \/ OktaActivateUser
    \/ OktaDeactivateUser
    \/ OktaSuspendUser
    \/ OktaUnsuspendUser
    \/ OktaResetPassword
    \/ OktaAssignGroup
    \/ OktaUnassignGroup

SpecOkta == InitOkta /\ [][NextOkta]_vars

\* C15: DEPROVISIONED is terminal: once a user is DEPROVISIONED no
\* activate_user, deactivate_user, suspend_user, unsuspend_user or
\* reset_password call (nor a group call) changes that user's status again.
C15_DeprovisionedTerminal ==
    [][\A u \in DOMAIN okta_users :
          okta_users[u].status = "DEPROVISIONED"
             => okta_users'[u].status = "DEPROVISIONED"]_vars

\* One of the five status calls has just been made on a DEPROVISIONED user.
C15_Witness ==
    /\ okta_last.pre = "DEPROVISIONED"
    /\ okta_last.op \in {"activate_user", "deactivate_user", "suspend_user",
                         "unsuspend_user", "reset_password"}
    /\ okta_users[okta_last.user_id].status = "DEPROVISIONED"

NoDuplicates(seq) == \A i, j \in DOMAIN seq : seq[i] = seq[j] => i = j

\* C16: from the seeded identity state and after any assign_group and
\* unassign_group calls, a user id is in a group's members exactly when the
\* group id is in the user's groups, with no duplicate on either side.
C16_MembershipTwoSided ==
    /\ \A u \in DOMAIN okta_users : \A g \in DOMAIN okta_groups :
          InSeq(u, okta_groups[g].members) <=> InSeq(g, okta_users[u].groups)
    /\ \A u \in DOMAIN okta_users : NoDuplicates(okta_users[u].groups)
    /\ \A g \in DOMAIN okta_groups : NoDuplicates(okta_groups[g].members)

-----------------------------------------------------------------------------
(* Calendar twin (src/vei/router/calendar.py) *)

MaxCalEvents == 1

MaxCalClock == 8

CAL_VALID_STATUSES == {"CONFIRMED", "TENTATIVE", "CANCELED"}

\* The arguments update_event is called with: a record of the ones given.
UpdateInputs ==
    {[title |-> "b"],
     [attendees |-> <<"bob">>],
     [status |-> "tentative"],
     [status |-> " canceled "],
     [title |-> "c", status |-> "bogus"]}

\* Names accept and decline are called with; "" is an empty name.
AttendeeInputs == {"ann", "bob", ""}

CalCall(op, id, ok, pre) == [op |-> op, id |-> id, ok |-> ok, pre |-> pre]

CalEventBefore(id) == IF id \in DOMAIN cal_events THEN cal_events[id] ELSE NoEvent

\* ValueError before anything but the clock is written.
CalReject(op, id, clock) ==
    /\ cal_last' = CalCall(op, id, FALSE, CalEventBefore(id))
    /\ cal_clock_ms' = clock
    /\ UNCHANGED <<cal_events, cal_event_seq>>
    /\ UNCHANGED notCal

\* CalendarSim.create_event(title, start_ms, end_ms, attendees, ..., status),
\* recorded as the call given
CreateEventAs(attendees, status, call) ==
    IF StripUpper(status) \notin CAL_VALID_STATUSES
    THEN /\ cal_last' = [call EXCEPT !.ok = FALSE]
         /\ cal_event_seq' = cal_event_seq + 1
         /\ UNCHANGED <<cal_events, cal_clock_ms>>
         /\ UNCHANGED notCal
    ELSE /\ cal_events' = Put(cal_events, cal_event_seq,
               [title |-> "a", start_ms |-> 10, end_ms |-> 20,
                attendees |-> attendees, location |-> "", description |-> "",
                status |-> StripUpper(status), organizer |-> "agent",
                version |-> 1, created_ms |-> cal_clock_ms + 1,
                updated_ms |-> cal_clock_ms + 1, cancel_reason |-> "",
                responses |-> << >>])
         /\ cal_event_seq' = cal_event_seq + 1
         /\ cal_clock_ms' = cal_clock_ms + 1
         /\ cal_last' = [call EXCEPT !.ok = TRUE]
         /\ UNCHANGED notCal

\* CalendarSim.create_event(title, start_ms, end_ms, attendees, ..., status)
CalCreateEvent ==
    /\ cal_event_seq <= MaxCalEvents
    /\ cal_clock_ms < MaxCalClock
    /\ \E attendees \in {<< >>, <<"ann">>}, status \in {"CONFIRMED", " canceled ", "bogus"} :
          CreateEventAs(attendees, status,
                        CalCall("create_event", cal_event_seq, TRUE, NoEvent))

\* if str(meta.get("status")) == "CANCELED": raise
UpdateRefusedBroken(status) == FALSE

UpdateRefused(status) == status = "CANCELED"

Given(args, name, old) == IF name \in DOMAIN args THEN args[name] ELSE old

\* The event's own fields after the assignments of update_event.
FieldsSet(evt, args) ==
    [evt EXCEPT !.title = Given(args, "title", @),
                !.start_ms = Given(args, "start_ms", @),
                !.end_ms = Given(args, "end_ms", @),
                !.attendees = Given(args, "attendees", @),
                !.location = Given(args, "location", @),
                !.description = Given(args, "description", @)]

FieldsGiven(args) ==
    DOMAIN args \cap {"title", "start_ms", "end_ms", "attendees", "location",
                      "description"} # {}

\* meta after update_event: the status when it differs, then version and
\* updated_ms when anything was given; clock is the clock after _meta.
MetaSet(evt, args, clock) ==
    IF FieldsGiven(args)
       \/ ("status" \in DOMAIN args /\ StripUpper(args.status) # evt.status)
    THEN [evt EXCEPT !.status = IF "status" \in DOMAIN args
                                THEN StripUpper(args.status) ELSE @,
                     !.version = @ + 1,
                     !.updated_ms = clock + 1]
    ELSE evt

\* _now_ms calls of update_event past the guards: two in _meta, one when
\* something changed, two in the _meta of _event_payload.
UpdateClock(evt, args, clock) ==
    IF MetaSet(evt, args, clock + 2) = evt THEN clock + 4 ELSE clock + 5

\* CalendarSim.update_event(event_id, ...), called as op
UpdateEventAs(op, id) ==
    IF id \notin DOMAIN cal_events
    THEN CalReject(op, id, cal_clock_ms)
    ELSE IF UpdateRefused(cal_events[id].status)
         THEN CalReject(op, id, cal_clock_ms + 2)
         ELSE \E args \in UpdateInputs :
                 IF "status" \in DOMAIN args
                    /\ StripUpper(args.status) \notin CAL_VALID_STATUSES
                 THEN /\ cal_events' = [cal_events EXCEPT
                            ![id] = FieldsSet(@, args)]
                      /\ cal_clock_ms' = cal_clock_ms + 2
                      /\ cal_last' = CalCall(op, id, FALSE,
                                             cal_events[id])
                      /\ UNCHANGED cal_event_seq
                      /\ UNCHANGED notCal
                 ELSE /\ cal_events' = [cal_events EXCEPT
                            ![id] = MetaSet(FieldsSet(@, args), args,
                                            cal_clock_ms + 2)]
                      /\ cal_clock_ms' =
                            UpdateClock(FieldsSet(cal_events[id], args), args,
                                        cal_clock_ms)
                      /\ cal_last' = CalCall(op, id, TRUE,
                                             cal_events[id])
                      /\ UNCHANGED cal_event_seq
                      /\ UNCHANGED notCal

\* CalendarSim.update_event(event_id, ...)
CalUpdateEvent ==
    /\ cal_clock_ms < MaxCalClock
    /\ \E id \in 1..(MaxCalEvents + 1) : UpdateEventAs("update_event", id)

\* CalendarSim.cancel_event(event_id, reason), called as op
CancelEventAs(op, id) ==
    IF id \notin DOMAIN cal_events
    THEN CalReject(op, id, cal_clock_ms)
    ELSE IF cal_events[id].status = "CANCELED"
         THEN /\ cal_last' = CalCall(op, id, TRUE, cal_events[id])
              /\ cal_clock_ms' = cal_clock_ms + 2
              /\ UNCHANGED <<cal_events, cal_event_seq>>
              /\ UNCHANGED notCal
         ELSE /\ cal_events' = [cal_events EXCEPT
                    ![id].status = "CANCELED",
                    ![id].cancel_reason = "manual_cancel",
                    ![id].version = @ + 1,
                    ![id].updated_ms = cal_clock_ms + 3]
              /\ cal_clock_ms' = cal_clock_ms + 3
              /\ cal_last' = CalCall(op, id, TRUE, cal_events[id])
              /\ UNCHANGED cal_event_seq
              /\ UNCHANGED notCal

\* CalendarSim.cancel_event(event_id, reason)
CalCancelEvent ==
    /\ cal_clock_ms < MaxCalClock
    /\ \E id \in 1..(MaxCalEvents + 1) : CancelEventAs("cancel_event", id)

\* CalendarSim._respond(event_id, attendee, status)
Respond(op, status) ==
    /\ cal_clock_ms < MaxCalClock
    /\ \E id \in 1..(MaxCalEvents + 1) :
          IF id \notin DOMAIN cal_events
          THEN CalReject(op, id, cal_clock_ms)
          ELSE IF cal_events[id].status = "CANCELED"
               THEN CalReject(op, id, cal_clock_ms + 2)
               ELSE \E attendee \in AttendeeInputs :
                       IF attendee # ""
                          /\ cal_events[id].attendees # << >>
                          /\ ~InSeq(attendee, cal_events[id].attendees)
                       THEN CalReject(op, id, cal_clock_ms + 2)
                       ELSE /\ cal_events' = [cal_events EXCEPT
                                  ![id].responses = Put(@, attendee, status)]
                            /\ cal_clock_ms' = cal_clock_ms + 2
                            /\ cal_last' = CalCall(op, id, TRUE, cal_events[id])
                            /\ UNCHANGED cal_event_seq
                            /\ UNCHANGED notCal

\* CalendarSim.accept(event_id, attendee)
CalAccept == Respond("accept", "accepted")

\* CalendarSim.decline(event_id, attendee)
CalDecline == Respond("decline", "declined")

\* CalendarSim.__init__ without seeded events
InitCal ==
    /\ cal_events = << >>
    /\ cal_clock_ms = 0
    /\ cal_event_seq = 1
    /\ cal_last = CalCall("init", 0, TRUE, NoEvent)
    /\ IdleTwin
    /\ IdleConn
    /\ IdleBus
    /\ IdlePage
    /\ IdleErp
    /\ IdleButCal

NextCal ==
    \/ CalCreateEvent
    \/ CalUpdateEvent
    \/ CalCancelEvent
    \/ CalAccept
    \/ CalDecline

SpecCal == InitCal /\ [][NextCal]_vars

\* C17: once an event is CANCELED every later update_event, accept and
\* decline on it is rejected and leaves its fields, status, responses and
\* version unchanged, so the event stays CANCELED.
C17_CanceledRejectsWrites ==
    [][\A id \in DOMAIN cal_events :
          cal_events[id].status = "CANCELED"
             => /\ cal_events'[id] = cal_events[id]
                /\ (cal_last'.id = id
                    /\ cal_last'.op \in {"update_event", "accept", "decline"})
                      => ~cal_last'.ok]_vars

\* update_event, accept or decline has just been called on a CANCELED event
\* that had been answered before it was canceled.
C17_Witness ==
    /\ cal_last.op \in {"update_event", "accept", "decline"}
    /\ cal_last.pre.status = "CANCELED"
    /\ ~cal_last.ok
    /\ cal_last.pre.version > 1
    /\ cal_last.pre.responses # << >>
    /\ cal_events[cal_last.id] = cal_last.pre

-----------------------------------------------------------------------------
(* Docs twin (src/vei/router/docs.py) *)

MaxSeedDocs == 4

MaxDocs == 1

MaxDocsClock == 6

DOCS_VALID_STATUSES == {"DRAFT", "ACTIVE", "ARCHIVED"}

\* The arguments update is called with: a record of the ones given.
DocsUpdateInputs ==
    {[title |-> "b"],
     [body |-> "y", tags |-> <<"hr">>],
     [status |-> "archived"],
     [status |-> "ACTIVE"],
     [title |-> "c", status |-> "bogus"]}

DocsCall(op, id, ok, pre) == [op |-> op, id |-> id, ok |-> ok, pre |-> pre]

\* A document of the scenario: ACTIVE, version 1, stamped with its rank
\* among the sorted ids past the start of the clock, which stays where it is.
SeededDoc(idx) ==
    [title |-> "a", body |-> "x", tags |-> << >>, owner |-> "system",
     status |-> "ACTIVE", version |-> 1, created_ms |-> idx, updated_ms |-> idx]

\* self.metadata.setdefault(doc_id, {...}): the entry of a document that
\* has none; its two _now_ms calls are made whether or not it has one.
DocMetaDefault(doc, clock) ==
    IF doc.version = 0
    THEN [doc EXCEPT !.owner = "system", !.status = "ACTIVE", !.version = 1,
                     !.created_ms = clock + 1, !.updated_ms = clock + 2]
    ELSE doc

\* doc.title, doc.body, doc.tags after the assignments of update.
DocFieldsSet(doc, args) ==
    [doc EXCEPT !.title = Given(args, "title", @),
                !.body = Given(args, "body", @),
                !.tags = Given(args, "tags", @)]

\* meta after update: the status when it differs, then version and
\* updated_ms when anything was given; clock is the clock after setdefault.
DocMetaSet(doc, args, clock) ==
    IF DOMAIN args \cap {"title", "body", "tags"} # {}
       \/ ("status" \in DOMAIN args /\ StripUpper(args.status) # doc.status)
    THEN [doc EXCEPT !.status = IF "status" \in DOMAIN args
                                THEN StripUpper(args.status) ELSE @,
                     !.version = @ + 1,
                     !.updated_ms = clock + 1]
    ELSE doc

\* DocsSim.create(title, body, tags, owner, status)
DocsCreate ==
    /\ docs_seq <= MaxSeedDocs + MaxDocs
    /\ docs_clock_ms < MaxDocsClock
    /\ \E status \in {"DRAFT", "bogus"} :
          IF StripUpper(status) \notin DOCS_VALID_STATUSES
          THEN /\ docs_docs' = Put(docs_docs, docs_seq,
                     [NoDoc EXCEPT !.title = "a", !.body = "x"])
               /\ docs_seq' = docs_seq + 1
               /\ docs_last' = DocsCall("create", docs_seq, FALSE, NoDoc)
               /\ UNCHANGED docs_clock_ms
               /\ UNCHANGED notDocs
          ELSE /\ docs_docs' = Put(docs_docs, docs_seq,
                     [title |-> "a", body |-> "x", tags |-> << >>,
                      owner |-> "agent", status |-> StripUpper(status),
                      version |-> 1, created_ms |-> docs_clock_ms + 1,
                      updated_ms |-> docs_clock_ms + 1])
               /\ docs_seq' = docs_seq + 1
               /\ docs_clock_ms' = docs_clock_ms + 1
               /\ docs_last' = DocsCall("create", docs_seq, TRUE, NoDoc)
               /\ UNCHANGED notDocs

\* DocsSim.update(doc_id, title, body, tags, status)
DocsUpdate ==
    /\ docs_clock_ms < MaxDocsClock
    /\ \E id \in 1..(MaxSeedDocs + MaxDocs + 1) :
          IF id \notin DOMAIN docs_docs
          THEN /\ docs_last' = DocsCall("update", id, FALSE, NoDoc)
               /\ UNCHANGED <<docs_docs, docs_clock_ms, docs_seq>>
               /\ UNCHANGED notDocs
          ELSE \E args \in DocsUpdateInputs :
                  /\ docs_clock_ms' =
                        IF "status" \in DOMAIN args
                           /\ StripUpper(args.status) \notin DOCS_VALID_STATUSES
                        THEN docs_clock_ms + 2
                        ELSE IF DocMetaSet(DocMetaDefault(docs_docs[id], docs_clock_ms),
                                           args, docs_clock_ms + 2)
                                  = DocMetaDefault(docs_docs[id], docs_clock_ms)
                             THEN docs_clock_ms + 2
                             ELSE docs_clock_ms + 3
                  /\ docs_docs' = [docs_docs EXCEPT ![id] =
                        IF "status" \in DOMAIN args
                           /\ StripUpper(args.status) \notin DOCS_VALID_STATUSES
                        THEN DocMetaDefault(DocFieldsSet(@, args), docs_clock_ms)
                        ELSE DocMetaSet(DocMetaDefault(DocFieldsSet(@, args),
                                                    docs_clock_ms),
                                        args, docs_clock_ms + 2)]
                  /\ docs_last' = DocsCall("update", id,
                        ~("status" \in DOMAIN args
                          /\ StripUpper(args.status) \notin DOCS_VALID_STATUSES),
                        docs_docs[id])
                  /\ UNCHANGED docs_seq
                  /\ UNCHANGED notDocs

\* DocsSim.read(doc_id)
DocsRead ==
    /\ docs_clock_ms < MaxDocsClock
    /\ \E id \in 1..(MaxSeedDocs + MaxDocs + 1) :
          IF id \notin DOMAIN docs_docs
          THEN /\ docs_last' = DocsCall("read", id, FALSE, NoDoc)
               /\ UNCHANGED <<docs_docs, docs_clock_ms, docs_seq>>
               /\ UNCHANGED notDocs
          ELSE /\ docs_docs' = [docs_docs EXCEPT
                     ![id] = DocMetaDefault(@, docs_clock_ms)]
               /\ docs_clock_ms' = docs_clock_ms + 2
               /\ docs_last' = DocsCall("read", id, TRUE, docs_docs[id])
               /\ UNCHANGED docs_seq
               /\ UNCHANGED notDocs

\* DocsSim.__init__ on a scenario of up to MaxSeedDocs documents
InitDocs ==
    /\ \E n \in 0..MaxSeedDocs :
          /\ docs_docs = [idx \in 1..n |-> SeededDoc(idx)]
          /\ docs_seq = n + 1
    /\ docs_clock_ms = 0
    /\ docs_last = DocsCall("init", 0, TRUE, NoDoc)
    /\ IdleTwin
    /\ IdleConn
    /\ IdleBus
    /\ IdlePage
    /\ IdleErp
    /\ IdleButDocs

NextDocs ==
    \/ DocsCreate
    \/ DocsUpdate
    \/ DocsRead

SpecDocs == InitDocs /\ [][NextDocs]_vars

\* C18: each successful docs.update that changes a document's title, body,
\* tags or status strictly increases both its version and its updated_ms,
\* and no operation ever decreases either value.
C18_VersionAndStampIncrease ==
    [][\A id \in DOMAIN docs_docs :
          /\ docs_docs'[id].version >= docs_docs[id].version
          /\ docs_docs'[id].updated_ms >= docs_docs[id].updated_ms
          /\ (/\ docs_last'.op = "update"
              /\ docs_last'.id = id
              /\ docs_last'.ok
              /\ <<docs_docs'[id].title, docs_docs'[id].body,
                   docs_docs'[id].tags, docs_docs'[id].status>>
                 # <<docs_docs[id].title, docs_docs[id].body,
                     docs_docs[id].tags, docs_docs[id].status>>)
                => /\ docs_docs'[id].version > docs_docs[id].version
                   /\ docs_docs'[id].updated_ms > docs_docs[id].updated_ms]_vars

-----------------------------------------------------------------------------
(* CRM twin, deals (src/vei/router/crm.py) *)

MaxDeals == 1

MaxStageHistory == 4

STAGE_BY_KEY ==
    [k \in {"new", "prospecting", "qualification", "proposal", "negotiation",
            "closed won", "closed lost", "closed_won", "closed_lost"} |->
        CASE k = "new"           -> "New"
          [] k = "prospecting"   -> "Prospecting"
          [] k = "qualification" -> "Qualification"
          [] k = "proposal"      -> "Proposal"
          [] k = "negotiation"   -> "Negotiation"
          [] k = "closed won"    -> "Closed Won"
          [] k = "closed lost"   -> "Closed Lost"
          [] k = "closed_won"    -> "Closed Won"
          [] k = "closed_lost"   -> "Closed Lost"]

ClosedStages == {"Closed Won", "Closed Lost"}

\* Stage strings a caller may pass.
StageInputs == {"New", "proposal", " Closed Won ", "closed_lost", "bogus"}

\* CrmSim._normalize_stage(stage); "" stands for the invalid_stage error.
NormalizeStage(stage) ==
    IF StripLower(stage) \in DOMAIN STAGE_BY_KEY
    THEN STAGE_BY_KEY[StripLower(stage)]
    ELSE ""

CrmCall(op, id, stage, ok, err) ==
    [op |-> op, id |-> id, stage |-> stage, ok |-> ok, err |-> err]

\* MCPError before anything is written.
CrmReject(op, id, stage, err) ==
    /\ crm_last' = CrmCall(op, id, stage, FALSE, err)
    /\ UNCHANGED <<crm_deals, crm_d_seq>>
    /\ UNCHANGED notCrm

\* CrmSim.create_deal(name, amount, stage)
CrmCreateDeal ==
    /\ crm_d_seq <= MaxDeals
    /\ \E stage \in {"New", " Closed Won ", "bogus"} :
          IF NormalizeStage(stage) = ""
          THEN CrmReject("create_deal", crm_d_seq, "", "invalid_stage")
          ELSE /\ crm_deals' = Put(crm_deals, crm_d_seq,
                     [name |-> "deal", amount |-> 100,
                      stage |-> NormalizeStage(stage),
                      created_ms |-> bus_clock_ms, updated_ms |-> bus_clock_ms,
                      stage_history |-> <<[stage |-> NormalizeStage(stage),
                                           time_ms |-> bus_clock_ms]>>])
               /\ crm_d_seq' = crm_d_seq + 1
               /\ crm_last' = CrmCall("create_deal", crm_d_seq,
                                      NormalizeStage(stage), TRUE, "")
               /\ UNCHANGED notCrm

\* if current in {"Closed Won", "Closed Lost"} and next_stage != current
ClosedRefusedBroken(current, next_stage) == FALSE

ClosedRefused(current, next_stage) ==
    current \in ClosedStages /\ next_stage # current

\* CrmSim.update_deal_stage(id, stage)
CrmUpdateDealStage ==
    \E id \in 1..(MaxDeals + 1), stage \in StageInputs :
       IF id \notin DOMAIN crm_deals
       THEN CrmReject("update_deal_stage", id, "", "unknown_deal")
       ELSE IF NormalizeStage(stage) = ""
            THEN CrmReject("update_deal_stage", id, "", "invalid_stage")
            ELSE IF ClosedRefused(crm_deals[id].stage, NormalizeStage(stage))
                 THEN CrmReject("update_deal_stage", id, NormalizeStage(stage),
                                "invalid_stage_transition")
                 ELSE /\ Len(crm_deals[id].stage_history) < MaxStageHistory
                      /\ crm_deals' = [crm_deals EXCEPT
                            ![id].stage = NormalizeStage(stage),
                            ![id].updated_ms = bus_clock_ms,
                            ![id].stage_history =
                                Append(@, [stage |-> NormalizeStage(stage),
                                           time_ms |-> bus_clock_ms])]
                      /\ crm_last' = CrmCall("update_deal_stage", id,
                                             NormalizeStage(stage), TRUE, "")
                      /\ UNCHANGED crm_d_seq
                      /\ UNCHANGED notCrm

\* CrmSim.__init__
InitCrm ==
    /\ crm_deals = << >>
    /\ crm_d_seq = 1
    /\ crm_last = CrmCall("init", 0, "", TRUE, "")
    /\ IdleTwin
    /\ IdleConn
    /\ IdleBus
    /\ IdlePage
    /\ IdleErp
    /\ IdleButCrm

NextCrm ==
    \/ CrmCreateDeal
    \/ CrmUpdateDealStage

SpecCrm == InitCrm /\ [][NextCrm]_vars

\* C19: once a deal's stage is Closed Won or Closed Lost no
\* crm.update_deal_stage call changes it, and every request for a different
\* stage is rejected with invalid_stage_transition.
C19_ClosedDealsStay ==
    [][\A id \in DOMAIN crm_deals :
          crm_deals[id].stage \in ClosedStages
             => /\ crm_deals'[id].stage = crm_deals[id].stage
                /\ (/\ crm_last'.op = "update_deal_stage"
                    /\ crm_last'.id = id
                    /\ crm_last'.stage \notin {"", crm_deals[id].stage})
                      => /\ ~crm_last'.ok
                         /\ crm_last'.err = "invalid_stage_transition"]_vars

\* A deal that was moved to a closed stage has just been asked for a
\* different stage and keeps its stage and its history.
C19_Witness ==
    /\ crm_last.op = "update_deal_stage"
    /\ crm_last.err = "invalid_stage_transition"
    /\ crm_last.id \in DOMAIN crm_deals
    /\ crm_deals[crm_last.id].stage \in ClosedStages
    /\ crm_last.stage # crm_deals[crm_last.id].stage
    /\ Len(crm_deals[crm_last.id].stage_history) > 1

-----------------------------------------------------------------------------
(* The receipts of a long session (src/vei/connectors/runtime.py) *)

DeniedGet == [id |-> 1, arg |-> ""]

\* The receipts, trace and session after n calls of tickets.get under a gate
\* that blocks it: none reaches the twin.
DeniedReceipts(mode, n) ==
    [i \in 1..n |->
        RecordReceipt(<< >>, mode, i, TOOL_ROUTES["tickets.get"], DeniedGet,
                      "deny", << >>)[1]]

DeniedTrace(n) ==
    [i \in 1..n |-> TraceEntry("tickets.get", DeniedGet, PolicyError("deny"))]

DeniedSession(mode, n) ==
    [twin |-> Twin, request_seq |-> n, receipts |-> DeniedReceipts(mode, n),
     memo |-> << >>, trace |-> DeniedTrace(n)]

\* A session one call short of RECEIPT_CAP receipts: the router of InitConn
\* with tickets.get blocked, after that many refused tickets.get calls.
InitLongSession ==
    /\ tk_clock_ms = 0
    /\ tk_last = [op |-> "init", id |-> 0, arg |-> "", ok |-> TRUE, pre |-> NoTicket]
    /\ tickets = (1 :> [status |-> "open",
                        history |-> <<[status |-> "open", tag |-> "status"]>>])
    /\ metadata = (1 :> [priority |-> "P3", comments |-> 0,
                         created_ms |-> 1, updated_ms |-> 1])
    /\ ticket_seq = 2
    /\ c_mode \in {"sim", "replay", "live"}
    /\ c_gate \in [allow_safe : BOOLEAN, allow_risky : BOOLEAN,
                   blocked : {{"tickets.get"}}]
    /\ request_seq = RECEIPT_CAP - 1
    /\ receipts = DeniedReceipts(c_mode, RECEIPT_CAP - 1)
    /\ memo = << >>
    /\ trace = DeniedTrace(RECEIPT_CAP - 1)
    /\ sessB = DeniedSession(c_mode, RECEIPT_CAP - 1)
    /\ c_last = [tool |-> "tickets.get", payload |-> DeniedGet,
                 action |-> "deny", error |-> PolicyError("deny"),
                 cache_hit |-> "none",
                 pre |-> DeniedSession(c_mode, RECEIPT_CAP - 2)]
    /\ IdleBus
    /\ IdlePage
    /\ IdleErp
    /\ IdleTwins

\* The next MaxCalls calls of the long session.
ConnInvokeLate == ConnInvokeUpTo(RECEIPT_CAP - 1 + MaxCalls)

NextLongSession == ConnInvokeLate

SpecLongSession == InitLongSession /\ [][NextLongSession]_vars

\* C20 as stated: every invocation that reaches the gate appends exactly one
\* receipt and the receipts are append-only: all of them, in invocation
\* order, none removed or altered, the last one for the latest invocation.
C20_ReceiptsAppendOnly ==
    [][/\ Len(receipts') = Len(receipts) + 1
       /\ SubSeq(receipts', 1, Len(receipts)) = receipts
       /\ receipts'[Len(receipts')].request_id = request_seq']_vars

\* C20, amended: every invocation adds one receipt at the end, the one of
\* that invocation; up to RECEIPT_CAP receipts all are kept, past it the
\* oldest is dropped, and the kept ones stay unaltered and in order.
C20_ReceiptsAppendWithinCap ==
    [][/\ request_seq' = request_seq + 1
       /\ Len(receipts') = IF Len(receipts) < RECEIPT_CAP
                           THEN Len(receipts) + 1 ELSE RECEIPT_CAP
       /\ \A i \in 1..(Len(receipts') - 1) :
             receipts'[i] = receipts[i + Len(receipts) + 1 - Len(receipts')]
       /\ receipts'[Len(receipts')].request_id = request_seq'
       /\ receipts'[Len(receipts')].policy_action = c_last'.action]_vars

\* An invocation found RECEIPT_CAP receipts and the oldest one is gone.
C20_Witness ==
    /\ Len(c_last.pre.receipts) = RECEIPT_CAP
    /\ Len(receipts) = RECEIPT_CAP
    /\ receipts[1] = c_last.pre.receipts[2]
    /\ receipts[1] # c_last.pre.receipts[1]
    /\ receipts[RECEIPT_CAP].request_id = request_seq
    /\ request_seq = RECEIPT_CAP + 1

-----------------------------------------------------------------------------
(* Corpus generator (src/vei/corpus/generator.py) *)

MaxCorpusCalls == 2

ORG_STEMS == <<"MacroCompute", "Northwind", "Acme Dynamics", "Blue Harbor",
               "SummitWorks", "Atlas Forge", "QuantaBridge">>

WORKFLOW_FAMILIES == <<"procurement_quote", "db_audit", "sales_pipeline",
                       "calendar_review", "risk_escalation",
                       "identity_access_review", "procure_to_pay">>

\* Values of VEI_CRM_ALIAS_PACKS, as the pieces between its commas.
PacksInputs == {<<"hubspot", "salesforce">>, <<" Salesforce ">>, <<"hubspot">>,
                <<"">>, <<"zoho">>}

\* os.environ.get("VEI_CRM_ALIAS_PACKS", "hubspot,salesforce")
PacksEnv(env) == IF env.set THEN env.value ELSE <<"hubspot", "salesforce">>

\* [pack.strip().lower() for pack in packs_env.split(",") if pack.strip()]
Packs(env) ==
    {StripLower(PacksEnv(env)[i]) : i \in DOMAIN PacksEnv(env)} \ {""}

\* _crm_tool_name(operation)
CrmToolName(env, operation) ==
    IF "salesforce" \in Packs(env)
    THEN (IF operation = "deal_create" THEN "salesforce.opportunity.create"
          ELSE "salesforce.activity.log")
    ELSE IF "hubspot" \in Packs(env)
    THEN (IF operation = "deal_create" THEN "hubspot.deals.create"
          ELSE "hubspot.activities.log")
    ELSE IF operation = "deal_create" THEN "crm.create_deal"
    ELSE "crm.log_activity"

\* The k-th number drawn from random.Random(seed): fixed by seed and k.
Draw(seed, k) == (seed * 31 + k * 17) % 1009

\* rng.randint(a, b) as the k-th draw
RandInt(seed, k, a, b) == a + (Draw(seed, k) % (b - a + 1))

AtLeastOne(n) == IF n < 1 THEN 1 ELSE n

\* _generate_environment(seed, index); rest stands for the vendors,
\* departments and derail_prob, all drawn from the same generator.
GenerateEnvironment(seed, index) ==
    [env_id |-> index + 1, seed |-> seed,
     org_stem |-> ORG_STEMS[(index % Len(ORG_STEMS)) + 1],
     org_suffix |-> RandInt(seed, 1, 0, 3),
     budget_cap_usd |-> RandInt(seed, 2, 1800, 5500),
     rest |-> Draw(seed, 3)]

\* _choose_budget(rng, cap)
ChooseBudget(seed, cap) ==
    IF cap - RandInt(seed, 1, 50, 300) < 500 THEN 500
    ELSE cap - RandInt(seed, 1, 50, 300)

\* _generate_workflow_spec(environment, seed, index); the steps are built
\* from the family, the ids, the budget and the two tool names.
GenerateWorkflowSpec(env, environment, seed, index) ==
    [scenario_id |-> <<environment.env_id, index + 1>>,
     env_id |-> environment.env_id, seed |-> seed,
     family |-> WORKFLOW_FAMILIES[(index % Len(WORKFLOW_FAMILIES)) + 1],
     budget |-> ChooseBudget(seed, environment.budget_cap_usd),
     tag |-> RandInt(seed, 2, 0, 2),
     crm_deal_create_tool |-> CrmToolName(env, "deal_create"),
     crm_activity_tool |-> CrmToolName(env, "activity_log")]

\* The draws of generate_corpus's own generator: for each environment its
\* seed, then the seeds of its workflows.
EnvSeed(seed, spe, e) == RandInt(seed, (e - 1) * (spe + 1) + 1, 1, 10000000)

WorkflowSeed(seed, spe, e, j) ==
    RandInt(seed, (e - 1) * (spe + 1) + 1 + j, 1, 10000000)

\* generate_corpus(seed, environment_count, scenarios_per_environment) in a
\* process whose environment is env
GenerateBundle(env, seed, ec, spe) ==
    [seed |-> seed,
     environments |->
        [e \in 1..AtLeastOne(ec) |->
            GenerateEnvironment(EnvSeed(seed, AtLeastOne(spe), e), e - 1)],
     workflows |->
        [w \in 1..(AtLeastOne(ec) * AtLeastOne(spe)) |->
            GenerateWorkflowSpec(env,
                GenerateEnvironment(
                    EnvSeed(seed, AtLeastOne(spe),
                            ((w - 1) \div AtLeastOne(spe)) + 1),
                    (w - 1) \div AtLeastOne(spe)),
                WorkflowSeed(seed, AtLeastOne(spe),
                             ((w - 1) \div AtLeastOne(spe)) + 1,
                             ((w - 1) % AtLeastOne(spe)) + 1),
                (w - 1) % AtLeastOne(spe))],
     environment_count |-> AtLeastOne(ec),
     workflow_count |-> AtLeastOne(ec) * AtLeastOne(spe)]

CorpusArgs == {<<1, 0, 1>>, <<1, 2, 1>>, <<2, 1, 3>>}

\* One call of generate_corpus; corpus_seen keeps the first bundle returned
\* for each argument triple.
GenerateCorpus ==
    /\ corpus_calls < MaxCorpusCalls
    /\ \E args \in CorpusArgs :
          /\ corpus_last' = [args |-> args,
                             bundle |-> GenerateBundle(proc_env, args[1],
                                                       args[2], args[3])]
          /\ corpus_seen' = IF args \in DOMAIN corpus_seen THEN corpus_seen
                            ELSE Put(corpus_seen, args,
                                     GenerateBundle(proc_env, args[1],
                                                    args[2], args[3]))
    /\ corpus_calls' = corpus_calls + 1
    /\ UNCHANGED proc_env
    /\ UNCHANGED notCorpus

\* The process sets or clears VEI_CRM_ALIAS_PACKS between two calls.
SetEnvPacks ==
    /\ \/ \E v \in PacksInputs : proc_env' = [set |-> TRUE, value |-> v]
       \/ proc_env' = [set |-> FALSE, value |-> << >>]
    /\ proc_env' # proc_env
    /\ UNCHANGED <<corpus_seen, corpus_last, corpus_calls>>
    /\ UNCHANGED notCorpus

InitCorpus ==
    /\ \/ \E v \in PacksInputs : proc_env = [set |-> TRUE, value |-> v]
       \/ proc_env = [set |-> FALSE, value |-> << >>]
    /\ corpus_seen = << >>
    /\ corpus_last = NoCorpusCall
    /\ corpus_calls = 0
    /\ IdleTwin
    /\ IdleConn
    /\ IdleBus
    /\ IdlePage
    /\ IdleErp
    /\ IdleButCorpus

NextCorpus ==
    \/ GenerateCorpus
    \/ SetEnvPacks

SpecCorpus == InitCorpus /\ [][NextCorpus]_vars

\* C21: generate_corpus is a pure function of (seed, environment_count,
\* scenarios_per_environment): a call returns the bundle an earlier call
\* with the same three arguments returned, whatever the process environment.
C21_GeneratorPure ==
    corpus_last.args \in DOMAIN corpus_seen
       => corpus_last.bundle = corpus_seen[corpus_last.args]

-----------------------------------------------------------------------------
(* Quality filter (src/vei/quality/filter.py) *)

MaxCorpusLen == 3

DEFAULT_REALISM_THRESHOLD == 55

\* A step of a workflow spec, as the filter reads it.
FStep(id, tool) == [step_id |-> id, tool |-> tool]

RichSteps == <<FStep("s1", "browser.read"), FStep("s2", "mail.compose"),
               FStep("s3", "slack.send_message"),
               FStep("s4", "hubspot.deals.create")>>

WfSpec(name, statement, steps, trigger, seed) ==
    [name |-> name, statement |-> statement, steps |-> steps,
     approvals |-> 1, constraints |-> 2,
     failure_paths |-> <<[trigger_step |-> trigger, recovery_steps |-> <<"s2">>]>>,
     metadata |-> [scenario_seed |-> seed, workflow_family |-> "db_audit"]]

\* Generated workflows: two that differ in the scenario seed only, one with
\* a poor spec, one whose failure path names no step, one with another name.
WorkflowInputs ==
    {[scenario_id |-> "A", spec |-> WfSpec("w1", "buy", RichSteps, "s1", 1)],
     [scenario_id |-> "B", spec |-> WfSpec("w1", "buy", RichSteps, "s1", 2)],
     [scenario_id |-> "C", spec |-> WfSpec("w2", "", <<FStep("s1", "noop")>>, "s1", 3)],
     [scenario_id |-> "D", spec |-> WfSpec("w3", "buy", RichSteps, "s9", 4)],
     [scenario_id |-> "E", spec |-> WfSpec("w4", "buy", RichSteps, "s1", 1)]}

\* _normalized_spec(spec): the spec without metadata.scenario_seed
NormalizedSpec(spec) ==
    [spec EXCEPT !.metadata = [k \in DOMAIN spec.metadata \ {"scenario_seed"} |->
                                  spec.metadata[k]]]

\* workflow_fingerprint(spec): the digest of the normalized spec, one per
\* normalized spec.
WorkflowFingerprint(spec) == <<"sha256", NormalizedSpec(spec)>>

\* _tool_service(step)
ToolService(step) ==
    CASE step.tool = "browser.read"         -> "browser"
      [] step.tool = "mail.compose"         -> "mail"
      [] step.tool = "slack.send_message"   -> "slack"
      [] step.tool = "hubspot.deals.create" -> "crm"
      [] OTHER                              -> ""

Services(spec) == {ToolService(spec.steps[i]) : i \in DOMAIN spec.steps} \ {""}

\* _structure_key(spec)
StructureKey(spec) == [i \in DOMAIN spec.steps |-> ToolService(spec.steps[i])]

\* realism_score(spec), in hundredths
RealismScore(spec) ==
    LET raw ==
          (IF spec.statement # "" THEN 20 ELSE 0)
        + (IF Len(spec.steps) >= 4 /\ Len(spec.steps) <= 12 THEN 20
           ELSE IF Len(spec.steps) >= 3 THEN 10 ELSE 0)
        + (IF 10 * Cardinality(Services(spec)) > 30 THEN 30
           ELSE 10 * Cardinality(Services(spec)))
        + (IF {"browser", "mail", "slack"} \subseteq Services(spec) THEN 15 ELSE 0)
        + (IF Services(spec) \cap {"tickets", "docs"} # {} THEN 10 ELSE 0)
        + 5 * Cardinality(Services(spec) \cap {"db", "crm", "erp", "okta", "servicedesk"})
        + (IF {"okta", "servicedesk"} \subseteq Services(spec) THEN 5 ELSE 0)
        + (IF spec.approvals > 0 THEN 5 ELSE 0)
        + (IF spec.constraints > 0 THEN 5 ELSE 0)
    IN IF raw > 100 THEN 100 ELSE raw

StepIds(steps) == {steps[i].step_id : i \in DOMAIN steps}

\* runnability_score(spec): the spec compiles (its step ids are distinct)
\* and static validation without a tool list reports no error.
RunnabilityScore(spec) ==
    IF /\ Cardinality(StepIds(spec.steps)) = Len(spec.steps)
       /\ \A p \in DOMAIN spec.failure_paths :
             /\ spec.failure_paths[p].trigger_step \in StepIds(spec.steps)
             /\ \A r \in DOMAIN spec.failure_paths[p].recovery_steps :
                   spec.failure_paths[p].recovery_steps[r] \in StepIds(spec.steps)
    THEN 100 ELSE 0

Count(counter, key) == IF key \in DOMAIN counter THEN counter[key] ELSE 0

\* if fp in seen_fingerprints
SeenBeforeBroken(fp, seen) == FALSE

SeenBefore(fp, seen) == fp \in seen

\* novelty < 0.2, novelty being 1.0 / float(count)
LowNoveltyBroken(count) == count > 4

LowNovelty(count) == count > 5

\* reasons of one workflow; count is its structure's count with it included.
Reasons(spec, seen, count) ==
      (IF SeenBefore(WorkflowFingerprint(spec), seen)
       THEN <<"duplicate_fingerprint">> ELSE << >>)
   \o (IF RealismScore(spec) < DEFAULT_REALISM_THRESHOLD
       THEN <<"realism_below_threshold">> ELSE << >>)
   \o (IF RunnabilityScore(spec) < 100
       THEN <<"static_runnability_failed">> ELSE << >>)
   \o (IF LowNovelty(count) THEN <<"low_structural_novelty">> ELSE << >>)

Score(workflow, pos, seen, count) ==
    [scenario_id |-> workflow.scenario_id, pos |-> pos,
     fingerprint |-> WorkflowFingerprint(workflow.spec),
     realism_score |-> RealismScore(workflow.spec),
     structure_count |-> count,
     runnability_score |-> RunnabilityScore(workflow.spec),
     accepted |-> Reasons(workflow.spec, seen, count) = << >>,
     reasons |-> Reasons(workflow.spec, seen, count)]

\* filter_workflow_corpus: one turn of its loop over the workflows
FilterNext ==
    /\ flt_pos <= Len(flt_input)
    /\ LET workflow == flt_input[flt_pos]
           key == StructureKey(workflow.spec)
           score == Score(workflow, flt_pos, flt_seen, Count(flt_counter, key) + 1)
       IN /\ flt_counter' = Put(flt_counter, key, Count(flt_counter, key) + 1)
          /\ IF score.accepted
             THEN /\ flt_seen' = flt_seen \cup {score.fingerprint}
                  /\ flt_accepted' = Append(flt_accepted, score)
                  /\ UNCHANGED flt_rejected
             ELSE /\ flt_rejected' = Append(flt_rejected, score)
                  /\ UNCHANGED <<flt_seen, flt_accepted>>
    /\ flt_pos' = flt_pos + 1
    /\ UNCHANGED flt_input
    /\ UNCHANGED notFilter

\* filter_workflow_corpus(workflows) on entry
InitFilter ==
    /\ \E n \in 0..MaxCorpusLen : flt_input \in [1..n -> WorkflowInputs]
    /\ flt_pos = 1
    /\ flt_seen = {}
    /\ flt_counter = << >>
    /\ flt_accepted = << >>
    /\ flt_rejected = << >>
    /\ IdleTwin
    /\ IdleConn
    /\ IdleBus
    /\ IdlePage
    /\ IdleErp
    /\ IdleButFilter

NextFilter == FilterNext

SpecFilter == InitFilter /\ [][NextFilter]_vars

\* C22: no two workflows in the accepted list have the same fingerprint, and
\* a workflow whose fingerprint equals that of an earlier accepted workflow
\* is rejected with reason duplicate_fingerprint.
C22_AcceptedDistinct ==
    /\ \A i, j \in DOMAIN flt_accepted :
          flt_accepted[i].fingerprint = flt_accepted[j].fingerprint => i = j
    /\ \A i \in DOMAIN flt_accepted : \A p \in 1..(flt_pos - 1) :
          (/\ p > flt_accepted[i].pos
           /\ WorkflowFingerprint(flt_input[p].spec) = flt_accepted[i].fingerprint)
             => \E r \in DOMAIN flt_rejected :
                   /\ flt_rejected[r].pos = p
                   /\ InSeq("duplicate_fingerprint", flt_rejected[r].reasons)

\* The filter has met a workflow that differs from an accepted one in its
\* scenario seed only, and has gone on to accept another after it.
C22_Witness ==
    /\ flt_pos > Len(flt_input)
    /\ Len(flt_accepted) = 2
    /\ \E r \in DOMAIN flt_rejected :
          /\ flt_rejected[r].reasons = <<"duplicate_fingerprint">>
          /\ flt_rejected[r].pos < flt_accepted[2].pos
          /\ flt_rejected[r].scenario_id # flt_accepted[1].scenario_id

-----------------------------------------------------------------------------
(* Workflow runner (src/vei/scenario_runner/{runner,validator}.py) *)

MaxWfSteps == 2

\* Tools of the router's registry, as far as the workflows here use them.
AvailableTools == {"mail.compose"}

StepTemplates ==
    {[tool |-> "mail.compose", on_failure |-> "fail"],
     [tool |-> "mail.compose", on_failure |-> " Continue "],
     [tool |-> "mail.compose", on_failure |-> "jump:s1"],
     [tool |-> "ghost.tool", on_failure |-> "fail"]}

StepIdAt(i) ==
    CASE i = 1 -> "s1"
      [] i = 2 -> "s2"
      [] i = 3 -> "s3"
      [] OTHER -> "s4"

\* compile_workflow_spec: the steps in the order of the spec, numbered from 1
CompileSteps(templates) ==
    [i \in DOMAIN templates |->
        [index |-> i, step_id |-> StepIdAt(i), tool |-> templates[i].tool,
         on_failure |-> templates[i].on_failure]]

\* The failure path's trigger step and whether approvals are declared.
WfVariants ==
    {[trigger_step |-> "s9", approvals |-> FALSE],
     [trigger_step |-> "s1", approvals |-> TRUE]}

SuccessAssertionInputs ==
    {<< >>, <<[kind |-> "pending_max", field |-> "total", max_value |-> 0]>>}

Issue(code, step_id, severity) ==
    [code |-> code, step_id |-> step_id, severity |-> severity]

HasError(issues) == \E i \in DOMAIN issues : issues[i].severity = "error"

RECURSIVE ToolIssues(_, _)
ToolIssues(steps, i) ==
    IF i > Len(steps) THEN << >>
    ELSE (IF steps[i].tool \notin AvailableTools
          THEN <<Issue("tool.unavailable", steps[i].step_id, "error")>>
          ELSE << >>) \o ToolIssues(steps, i + 1)

\* static_validate_workflow(workflow, available_tools)
StaticValidate(wf) ==
       ToolIssues(wf.steps, 1)
    \o (IF wf.trigger_step \notin StepIds(wf.steps)
        THEN <<Issue("failure_path.trigger_missing", wf.trigger_step, "error")>>
        ELSE << >>)
    \o (IF wf.approvals
        THEN <<Issue("approval.unmapped", "", "warning")>>
        ELSE << >>)

\* max_guard = max(1, len(workflow.steps) * 3)
MaxGuardBroken(n) == IF n * 4 < 1 THEN 1 ELSE n * 4

MaxGuard(n) == IF n * 3 < 1 THEN 1 ELSE n * 3

\* behavior.split(":", 1)[1]
JumpTarget(behavior) ==
    CASE behavior = "jump:s1" -> "s1"
      [] behavior = "jump:s2" -> "s2"
      [] behavior = "jump:s3" -> "s3"
      [] OTHER                -> ""

\* behavior.startswith("jump:")
IsJump(behavior) == behavior \in {"jump:s1", "jump:s2", "jump:s3"}

\* _resolve_failure_target with continue and skip moving on by two.
ResolveFailureTargetBroken(wf, on_failure, current_index) ==
    IF StripLower(on_failure) \in {"continue", "skip"}
    THEN current_index + 2
    ELSE IF IsJump(StripLower(on_failure))
            /\ \E i \in DOMAIN wf.steps :
                  wf.steps[i].step_id = JumpTarget(StripLower(on_failure))
         THEN (CHOOSE i \in DOMAIN wf.steps :
                  wf.steps[i].step_id = JumpTarget(StripLower(on_failure))) - 1
         ELSE -1

\* _resolve_failure_target(workflow, on_failure, current_index); -1 is None
ResolveFailureTarget(wf, on_failure, current_index) ==
    IF StripLower(on_failure) \in {"continue", "skip"}
    THEN current_index + 1
    ELSE IF IsJump(StripLower(on_failure))
            /\ \E i \in DOMAIN wf.steps :
                  wf.steps[i].step_id = JumpTarget(StripLower(on_failure))
         THEN (CHOOSE i \in DOMAIN wf.steps :
                  wf.steps[i].step_id = JumpTarget(StripLower(on_failure))) - 1
         ELSE -1

\* What a step's call and its expect assertions may come to.
Outcomes == {"pass", "assertion.failed", "step.exception"}

\* index += 1
StepOverBroken(index) == index + 2

StepOver(index) == index + 1

\* _assertion_failure for a pending_max assertion
AssertionFails(assertion, pending) == pending.total > assertion.max_value

RECURSIVE SuccessIssues(_, _, _)
SuccessIssues(assertions, pending, i) ==
    IF i > Len(assertions) THEN << >>
    ELSE (IF AssertionFails(assertions[i], pending)
          THEN <<Issue("success_assertion.failed", "", "error")>>
          ELSE << >>) \o SuccessIssues(assertions, pending, i + 1)

\* ValidationReport.ok of the dynamic issues
DynamicOkBroken(issues) == TRUE

DynamicOk(issues) == ~HasError(issues)

\* run_compiled_workflow up to its loop: the router is built and static
\* validation run; an error ends the run at once.
RunStart ==
    /\ run_phase = "new"
    /\ IF HasError(StaticValidate(run_wf))
       THEN /\ run_phase' = "done"
            /\ run_result' = [ok |-> FALSE, static_ok |-> FALSE,
                              dynamic_ok |-> FALSE]
       ELSE /\ run_phase' = IF Len(run_wf.steps) > 0 THEN "loop" ELSE "final"
            /\ run_result' = [ok |-> FALSE, static_ok |-> TRUE,
                              dynamic_ok |-> FALSE]
    /\ UNCHANGED <<run_wf, run_index, run_guard, run_steps, run_issues, run_final>>
    /\ UNCHANGED notRun

\* One turn of the while loop.
RunLoop ==
    /\ run_phase = "loop"
    /\ run_guard' = run_guard + 1
    /\ IF run_guard + 1 > MaxGuard(Len(run_wf.steps))
       THEN /\ run_issues' = Append(run_issues, Issue("runner.loop_guard", "", "error"))
            /\ run_phase' = "final"
            /\ UNCHANGED <<run_index, run_steps>>
       ELSE \E outcome \in Outcomes :
              LET step == run_wf.steps[run_index + 1]
                  next == IF outcome = "pass" THEN StepOver(run_index)
                          ELSE ResolveFailureTarget(run_wf, step.on_failure,
                                                    run_index)
              IN /\ run_steps' = Append(run_steps,
                        [step_id |-> step.step_id, tool |-> step.tool,
                         ok |-> outcome = "pass"])
                 /\ run_issues' = IF outcome = "pass" THEN run_issues
                                  ELSE Append(run_issues,
                                              Issue(outcome, step.step_id, "error"))
                 /\ run_index' = IF next = -1 THEN run_index ELSE next
                 /\ run_phase' = IF next = -1 \/ next >= Len(run_wf.steps)
                                 THEN "final" ELSE "loop"
    /\ UNCHANGED <<run_wf, run_result, run_final>>
    /\ UNCHANGED notRun

\* After the loop: the success assertions on the final state, the reports.
RunFinish ==
    /\ run_phase = "final"
    /\ \E total \in {0, 1} :
          /\ run_final' = [total |-> total]
          /\ run_issues' = run_issues
                \o SuccessIssues(run_wf.success_assertions, [total |-> total], 1)
    /\ run_result' = [ok |-> DynamicOk(run_issues'), static_ok |-> TRUE,
                      dynamic_ok |-> DynamicOk(run_issues')]
    /\ run_phase' = "done"
    /\ UNCHANGED <<run_wf, run_index, run_guard, run_steps>>
    /\ UNCHANGED notRun

\* A compiled workflow handed to run_compiled_workflow.
InitRun ==
    /\ \E n \in 0..MaxWfSteps :
       \E templates \in [1..n -> StepTemplates], v \in WfVariants,
          sa \in SuccessAssertionInputs :
          run_wf = [steps |-> CompileSteps(templates),
                    trigger_step |-> v.trigger_step, approvals |-> v.approvals,
                    success_assertions |-> sa]
    /\ run_phase = "new"
    /\ run_index = 0
    /\ run_guard = 0
    /\ run_steps = << >>
    /\ run_issues = << >>
    /\ run_final = [total |-> -1]
    /\ run_result = [ok |-> FALSE, static_ok |-> FALSE, dynamic_ok |-> FALSE]
    /\ IdleTwin
    /\ IdleConn
    /\ IdleBus
    /\ IdlePage
    /\ IdleErp
    /\ IdleButRun

NextRun ==
    \/ RunStart
    \/ RunLoop
    \/ RunFinish

\* Each call of the router returns, so the run goes on while it can.
SpecRun == InitRun /\ [][NextRun]_vars /\ WF_vars(NextRun)

NoStepFailed == \A i \in DOMAIN run_steps : run_steps[i].ok

EachStepOnceInOrder ==
    /\ Len(run_steps) = Len(run_wf.steps)
    /\ \A i \in DOMAIN run_steps : run_steps[i].step_id = run_wf.steps[i].step_id

\* C23 as stated: when no step fails the run executes every step of the
\* workflow exactly once, in the order of the spec, and records one
\* StepExecution per step in that order.
C23_EveryStepOnceInOrder ==
    (run_phase = "done" /\ NoStepFailed) => EachStepOnceInOrder

\* C23, amended: the same for a workflow that passes static validation; one
\* that does not is returned with no step executed.
C23_EveryStepOnceInOrderIfValid ==
    /\ (run_phase = "done" /\ NoStepFailed /\ run_result.static_ok)
          => EachStepOnceInOrder
    /\ (run_phase = "done" /\ ~run_result.static_ok) => run_steps = << >>

\* A run of two steps is over and both passed.
C23_Witness ==
    /\ run_phase = "done"
    /\ run_result.static_ok
    /\ Len(run_wf.steps) = 2
    /\ Len(run_steps) = 2
    /\ NoStepFailed

\* C24: if a success assertion does not hold on the final pending state the
\* run reports ok=false and a dynamic validation issue, even when every step
\* executed and passed.
C24_SuccessAssertionsEnforced ==
    (/\ run_phase = "done"
     /\ run_final.total >= 0
     /\ \E a \in DOMAIN run_wf.success_assertions :
           run_final.total > run_wf.success_assertions[a].max_value)
       => /\ ~run_result.ok
          /\ ~run_result.dynamic_ok
          /\ \E i \in DOMAIN run_issues :
                run_issues[i].code = "success_assertion.failed"

\* Every step ran and passed, and the final pending count is above the
\* maximum the success assertion allows.
C24_Witness ==
    /\ run_phase = "done"
    /\ Len(run_steps) = 2
    /\ EachStepOnceInOrder
    /\ NoStepFailed
    /\ run_wf.success_assertions # << >>
    /\ run_final.total = 1
    /\ ~run_result.ok

GuardTripped == run_guard > MaxGuard(Len(run_wf.steps))

\* C30: the run always terminates; at most 3*len(steps) step executions
\* occur, and a run that uses them up and would go on stops with a
\* runner.loop_guard issue and reports ok=false.
C30_LoopGuardTerminates ==
    /\ [](/\ Len(run_steps) <= 3 * Len(run_wf.steps)
          /\ GuardTripped =>
                /\ run_phase \in {"final", "done"}
                /\ Len(run_steps) = 3 * Len(run_wf.steps)
                /\ \E i \in DOMAIN run_issues :
                      run_issues[i].code = "runner.loop_guard"
                /\ run_phase = "done" => ~run_result.ok)
    /\ <>(run_phase = "done")

\* A workflow whose failing step jumps back to itself was stopped by the
\* loop guard.
C30_Witness ==
    /\ run_phase = "done"
    /\ GuardTripped
    /\ Len(run_steps) = 3 * Len(run_wf.steps)
    /\ \A i \in DOMAIN run_steps : ~run_steps[i].ok
    /\ ~run_result.ok

-----------------------------------------------------------------------------
(* Database twin, upsert (src/vei/router/database.py) *)

MaxDbCalls == 3

\* Key values a caller supplies; the T-n are also what the twin generates
\* for table "t".
DbIds == {"T-1", "T-2", "T-3", "x"}

\* Rows handed to db.upsert: with or without the key column.
DbRowInputs ==
    [has_key : {TRUE}, id : DbIds, v : {1, 2}]
        \cup [has_key : {FALSE}, id : {""}, v : {1, 2}]

\* f"{table.upper()}-{len(table_rows) + 1}" for table "t"
GeneratedId(n) ==
    CASE n = 0 -> "T-1"
      [] n = 1 -> "T-2"
      [] n = 2 -> "T-3"
      [] n = 3 -> "T-4"
      [] OTHER -> "T-5"

\* row_id: the supplied key value, or the generated one
RowId(rows, row) == IF row.has_key THEN row.id ELSE GeneratedId(Len(rows))

KeyIndexes(rows, row_id) == {i \in DOMAIN rows : rows[i].id = row_id}

\* DatabaseSim.upsert(table, row) with the default key: the first row with
\* the key value takes the supplied columns, otherwise the row is appended.
Upsert(rows, row) ==
    LET row_id == RowId(rows, row)
        hits   == KeyIndexes(rows, row_id)
    IN IF hits # {}
       THEN [rows |-> [rows EXCEPT ![CHOOSE i \in hits : \A j \in hits : i <= j] = [id |-> row_id, v |-> row.v]],
             id |-> row_id, updated |-> TRUE]
       ELSE [rows |-> Append(rows, [id |-> row_id, v |-> row.v]),
             id |-> row_id, updated |-> FALSE]

DbUpsert ==
    /\ db_calls < MaxDbCalls
    /\ \E row \in DbRowInputs :
          /\ db_rows' = Upsert(db_rows, row).rows
          /\ db_last' = [called |-> TRUE, row |-> row,
                         id |-> Upsert(db_rows, row).id,
                         updated |-> Upsert(db_rows, row).updated,
                         before |-> db_rows]
    /\ db_calls' = db_calls + 1
    /\ UNCHANGED notDb

\* A table seeded with rows of pairwise distinct ids.
DbSeeds ==
    {<< >>, <<[id |-> "x", v |-> 1]>>, <<[id |-> "T-2", v |-> 1]>>,
     <<[id |-> "x", v |-> 1], [id |-> "T-1", v |-> 2]>>}

InitDb ==
    /\ db_rows \in DbSeeds
    /\ db_calls = 0
    /\ db_last = NoDbCall
    /\ IdleTwin
    /\ IdleConn
    /\ IdleBus
    /\ IdlePage
    /\ IdleErp
    /\ IdleButDb

NextDb == DbUpsert

SpecDb == InitDb /\ [][NextDb]_vars

DistinctKeys(rows) ==
    \A i, j \in DOMAIN rows : rows[i].id = rows[j].id => i = j

\* C25: after any sequence of db.upsert calls the rows have pairwise distinct
\* key values, and each call returns updated=true exactly when the supplied
\* row carried a key value that was in the table before the call; otherwise
\* one new row is added and updated=false.
C25_UpsertByKey ==
    /\ DistinctKeys(db_rows)
    /\ db_last.called =>
          LET existed == /\ db_last.row.has_key
                         /\ \E i \in DOMAIN db_last.before :
                               db_last.before[i].id = db_last.row.id
          IN /\ db_last.updated <=> existed
             /\ ~existed => /\ Len(db_rows) = Len(db_last.before) + 1
                            /\ ~db_last.updated

-----------------------------------------------------------------------------
(* C27, C28, C29: the default gate by mode, the replay adapter *)

\* C27 as stated: when the connector mode is not live the gate returns ALLOW
\* for every request, whatever its operation class and whatever the
\* blocklist contains.
C27_NonLiveAllowsAll ==
    (Invoked /\ c_mode # "live") => c_last.action = "allow"

\* C28: in live mode a request whose service.operation is in the blocklist
\* is denied with policy.denied, whatever its operation class and whatever
\* the allow flags.
C28_LiveBlocklistDenies ==
    (Invoked /\ c_mode = "live" /\ c_last.tool \in c_gate.blocked) =>
        /\ c_last.action = "deny"
        /\ c_last.error = "policy.denied"
        /\ LastReceipt.policy_action = "deny"
        /\ Twin = c_last.pre.twin

\* In live mode a blocklisted safe write was denied although
\* live_allow_write_safe is set.
C28_Witness ==
    /\ Invoked
    /\ c_mode = "live"
    /\ c_gate.allow_safe
    /\ c_gate.blocked = {"tickets.create"}
    /\ c_last.tool = "tickets.create"
    /\ c_last.error = "policy.denied"

LastKey == RequestKey(TOOL_ROUTES[c_last.tool], c_last.payload)

\* The invocation went through the gate to the replay adapter.
Replayed == Invoked /\ c_mode = "replay" /\ c_last.action = "allow"

\* C29: in replay mode an invocation whose key is new runs the twin handler,
\* is stamped cache_hit=false and memoizes its result; an invocation whose
\* key was seen returns the memoized result stamped cache_hit=true and leaves
\* the twin and the memo as they were.
C29_ReplayMemoizes ==
    Replayed =>
        IF LastKey \in DOMAIN c_last.pre.memo
        THEN /\ c_last.cache_hit = "true"
             /\ Twin = c_last.pre.twin
             /\ memo = c_last.pre.memo
             /\ c_last.error = ResultCode(memo[LastKey])
             /\ LastReceipt.ok = memo[LastKey].ok
             /\ LastReceipt.latency_ms = memo[LastKey].latency_ms
        ELSE /\ c_last.cache_hit = "false"
             /\ Twin = RunHandler(c_last.pre.twin, TOOL_ROUTES[c_last.tool].operation,
                                  c_last.payload).tw
             /\ LastKey \in DOMAIN memo
             /\ LastReceipt.ok = memo[LastKey].ok
             /\ LastReceipt.latency_ms = memo[LastKey].latency_ms

\* A tickets.create that made a ticket is repeated with the same arguments:
\* the second one is a cache hit and makes no ticket.
C29_Witness ==
    /\ Replayed
    /\ c_last.tool = "tickets.create"
    /\ c_last.cache_hit = "true"
    /\ memo[LastKey].ok
    /\ Twin.seq = c_last.pre.twin.seq
    /\ Twin.seq > 2

-----------------------------------------------------------------------------
(* C26: events for a target no twin handles *)

NoTwin(target) == target \notin KnownTargets

\* The entries the tick that just ended added to the log.
LoggedBy(log, tick) == {log[i].ev : i \in {j \in DOMAIN log : log[j].tick = tick}}

\* C26: scheduling an event for a target that no twin handles succeeds and
\* the event is counted in pending; a tick that covers it completes, takes
\* it out of pending and delivers every other due event as well.
C26_UnknownTargetHarmless ==
    [][/\ (bus_last'.call.op = "schedule" /\ NoTwin(bus_last'.call.target)) =>
            /\ PendingFor(bus_heap', bus_last'.call.target)
                  = PendingFor(bus_heap, bus_last'.call.target) + 1
            /\ bus_heap \subseteq bus_heap'
       /\ (/\ bus_last'.call.op = "tick"
           /\ \E e \in Due(bus_heap, bus_clock_ms') : NoTwin(e.target)) =>
            /\ bus_ticks' = bus_ticks + 1
            /\ \A e \in Due(bus_heap, bus_clock_ms') :
                  /\ e \notin bus_heap'
                  /\ e \in LoggedBy(bus_log', bus_ticks')
            /\ \A e \in bus_heap' :
                  e.time_ms <= bus_clock_ms' => e.born = bus_ticks'
            /\ \A e \in bus_heap \ Due(bus_heap, bus_clock_ms') : e \in bus_heap'
      ]_vars

\* One tick has delivered an event for custom_target and, after it, an event
\* for a twin; nothing is pending for custom_target.
C26_Witness ==
    /\ bus_last.call.op = "tick"
    /\ PendingFor(bus_heap, "custom_target") = 0
    /\ \E i, j \in DOMAIN bus_log :
          /\ i < j
          /\ bus_log[i].tick = bus_ticks
          /\ bus_log[j].tick = bus_ticks
          /\ bus_log[i].ev.target = "custom_target"
          /\ bus_log[j].ev.target \in KnownTargets

-----------------------------------------------------------------------------
(* C31, C32: on_failure routing of the workflow runner *)

WfStep(i, step_id, on_failure) ==
    [index |-> i, step_id |-> step_id, tool |-> "mail.compose",
     on_failure |-> on_failure]

Wf(steps) ==
    [steps |-> steps, trigger_step |-> steps[1].step_id, approvals |-> FALSE,
     success_assertions |-> << >>]

\* Workflows of three steps without a jump, and three with one: back to the
\* failing step itself, forward over a step, and to a step whose id has a
\* capital letter.
RoutingWorkflows ==
    {Wf(<<WfStep(1, "s1", a), WfStep(2, "s2", b), WfStep(3, "s3", c)>>) :
        a \in {"fail", " Continue "}, b \in {"fail", " Continue ", "skip"},
        c \in {"fail", "skip"}}
    \cup {Wf(<<WfStep(1, "s1", "jump:s1"), WfStep(2, "s2", " Continue "),
               WfStep(3, "s3", "fail")>>),
          Wf(<<WfStep(1, "s1", "jump:s3"), WfStep(2, "s2", "fail"),
               WfStep(3, "s3", "skip")>>),
          Wf(<<WfStep(1, "s1", "jump:S2"), WfStep(2, "S2", "fail")>>)}

\* run_compiled_workflow handed one of these workflows.
InitRouting ==
    /\ run_wf \in RoutingWorkflows
    /\ run_phase = "new"
    /\ run_index = 0
    /\ run_guard = 0
    /\ run_steps = << >>
    /\ run_issues = << >>
    /\ run_final = [total |-> -1]
    /\ run_result = [ok |-> FALSE, static_ok |-> FALSE, dynamic_ok |-> FALSE]
    /\ IdleTwin
    /\ IdleConn
    /\ IdleBus
    /\ IdlePage
    /\ IdleErp
    /\ IdleButRun

SpecRouting == InitRouting /\ [][NextRun]_vars

\* The step of the workflow that the i-th StepExecution is for.
StepOfExecution(i) ==
    run_wf.steps[CHOOSE k \in DOMAIN run_wf.steps :
                    run_wf.steps[k].step_id = run_steps[i].step_id]

FailedExecutions == {i \in DOMAIN run_steps : ~run_steps[i].ok}

\* on_failure as the spec writes it, by kind.
WrittenKind(on_failure) ==
    CASE on_failure \in {"fail", ""}              -> "fail"
      [] on_failure \in {" Continue ", "skip"}    -> "continue"
      [] OTHER                                    -> "jump"

\* The <step_id> of jump:<step_id> as the spec writes it.
WrittenTarget(on_failure) ==
    CASE on_failure = "jump:s1" -> "s1"
      [] on_failure = "jump:s3" -> "s3"
      [] on_failure = "jump:S2" -> "S2"
      [] OTHER                  -> ""

RunOver == run_phase = "done"

LoopGuardHit ==
    \E i \in DOMAIN run_issues : run_issues[i].code = "runner.loop_guard"

\* Whether the run went on after the i-th execution with the step of the
\* given id; once the run is over it must have.
WentOnWith(i, step_id) ==
    /\ i < Len(run_steps) => run_steps[i + 1].step_id = step_id
    /\ RunOver => i < Len(run_steps)

\* The same, the run ending at the loop guard set aside.
WentOnWithUnlessGuard(i, step_id) ==
    /\ i < Len(run_steps) => run_steps[i + 1].step_id = step_id
    /\ RunOver => (i < Len(run_steps) \/ LoopGuardHit)

\* C31 as stated: after a failed step whose on_failure is fail no later step
\* is executed; after one whose on_failure is continue or skip the next step
\* in spec order is executed.
C31_FailEndsContinueProceeds ==
    \A i \in FailedExecutions :
        /\ WrittenKind(StepOfExecution(i).on_failure) = "fail"
              => i = Len(run_steps)
        /\ (/\ WrittenKind(StepOfExecution(i).on_failure) = "continue"
            /\ StepOfExecution(i).index < Len(run_wf.steps))
              => WentOnWith(i, run_wf.steps[StepOfExecution(i).index + 1].step_id)

\* C31, amended: the same, except that the run ends with a runner.loop_guard
\* issue instead of executing the next step when the failed step was the
\* 3*len(steps)-th execution of the run.
C31_FailEndsContinueProceedsUnlessGuard ==
    \A i \in FailedExecutions :
        /\ WrittenKind(StepOfExecution(i).on_failure) = "fail"
              => i = Len(run_steps)
        /\ (/\ WrittenKind(StepOfExecution(i).on_failure) = "continue"
            /\ StepOfExecution(i).index < Len(run_wf.steps))
              => /\ WentOnWithUnlessGuard(i,
                        run_wf.steps[StepOfExecution(i).index + 1].step_id)
                 /\ (RunOver /\ i = Len(run_steps)) => i = 3 * Len(run_wf.steps)

\* A run is over in which the first step failed with on_failure continue and
\* the second with skip, the third was executed after them.
C31_Witness ==
    /\ RunOver
    /\ Len(run_steps) = 3
    /\ ~run_steps[1].ok /\ ~run_steps[2].ok
    /\ run_wf.steps[1].on_failure = " Continue "
    /\ run_wf.steps[2].on_failure = "skip"
    /\ run_steps[3].step_id = "s3"

\* C32: after a failed step whose on_failure is jump:<step_id>, <step_id>
\* the id of a step of the workflow, the next step executed is that step.
C32_JumpGoesToStep ==
    \A i \in FailedExecutions :
        (/\ WrittenKind(StepOfExecution(i).on_failure) = "jump"
         /\ WrittenTarget(StepOfExecution(i).on_failure) \in StepIds(run_wf.steps))
           => WentOnWithUnlessGuard(i, WrittenTarget(StepOfExecution(i).on_failure))

-----------------------------------------------------------------------------
(* C33: the quality filter's verdict *)

LongCorpusLen == 6

\* Workflows of one structure: two with one fingerprint, one with another.
SameStructureInputs ==
    {w \in WorkflowInputs : w.scenario_id \in {"A", "B", "E"}}

\* filter_workflow_corpus(workflows) on entry, the corpus short and mixed or
\* long and of one structure.
InitFilterLong ==
    /\ \/ \E n \in 0..MaxCorpusLen : flt_input \in [1..n -> WorkflowInputs]
       \/ flt_input \in [1..LongCorpusLen -> SameStructureInputs]
    /\ flt_pos = 1
    /\ flt_seen = {}
    /\ flt_counter = << >>
    /\ flt_accepted = << >>
    /\ flt_rejected = << >>
    /\ IdleTwin
    /\ IdleConn
    /\ IdleBus
    /\ IdlePage
    /\ IdleErp
    /\ IdleButFilter

SpecFilterLong == InitFilterLong /\ [][NextFilter]_vars

AcceptedAt(p) == \E i \in DOMAIN flt_accepted : flt_accepted[i].pos = p

RejectedAt(p) == \E i \in DOMAIN flt_rejected : flt_rejected[i].pos = p

\* The workflows up to and with the p-th that have its structure key.
SameStructureUpTo(p) ==
    {q \in 1..p : StructureKey(flt_input[q].spec) = StructureKey(flt_input[p].spec)}

FingerprintSeenEarlier(p) ==
    \E q \in 1..(p - 1) :
        WorkflowFingerprint(flt_input[q].spec) = WorkflowFingerprint(flt_input[p].spec)

\* C33: every workflow the filter has gone through is in exactly one of
\* accepted and rejected, once, and it is accepted exactly when no earlier
\* workflow of the input has its fingerprint, its realism score is at least
\* the threshold, its runnability is 1 and 1 divided by the number of
\* workflows so far with its structure key is at least 0.2.
C33_AcceptedIffQuality ==
    /\ Len(flt_accepted) + Len(flt_rejected) = flt_pos - 1
    /\ \A p \in 1..(flt_pos - 1) :
          /\ AcceptedAt(p) # RejectedAt(p)
          /\ AcceptedAt(p) <=>
                /\ ~FingerprintSeenEarlier(p)
                /\ RealismScore(flt_input[p].spec) >= DEFAULT_REALISM_THRESHOLD
                /\ RunnabilityScore(flt_input[p].spec) = 100
                /\ 10 >= 2 * Cardinality(SameStructureUpTo(p))

\* The sixth workflow of one structure has a fingerprint not seen before and
\* is rejected for its novelty alone; the fifth one was not.
C33_Witness ==
    /\ flt_pos = 7
    /\ ~FingerprintSeenEarlier(6)
    /\ RejectedAt(6)
    /\ flt_rejected[Len(flt_rejected)].reasons = <<"low_structural_novelty">>
    /\ \A i \in DOMAIN flt_rejected :
          flt_rejected[i].pos = 5 => flt_rejected[i].reasons = <<"duplicate_fingerprint">>

-----------------------------------------------------------------------------
(* C34: bus deliveries to the calendar twin *)

\* payload.get("op", "create") of a delivery, lower-cased; "" is no op.
DeliverOps == {"", "update", "cancel"}

\* CalendarSim.deliver(event): event_id 0 stands for a payload without one;
\* the payload has a title and integer start_ms and end_ms.
CalDeliver ==
    /\ cal_clock_ms < MaxCalClock
    /\ \E op \in DeliverOps, event_id \in 0..(MaxCalEvents + 1) :
          IF op = "update"
          THEN IF event_id = 0
               THEN CalReject("deliver.update", 0, cal_clock_ms)
               ELSE UpdateEventAs("deliver.update", event_id)
          ELSE IF op = "cancel"
          THEN IF event_id = 0
               THEN CalReject("deliver.cancel", 0, cal_clock_ms)
               ELSE CancelEventAs("deliver.cancel", event_id)
          ELSE /\ cal_event_seq <= MaxCalEvents + 1
               /\ CreateEventAs(<<"ann">>, "CONFIRMED",
                                CalCall("deliver.create", event_id, TRUE,
                                        CalEventBefore(event_id)))

NextCalBus ==
    \/ NextCal
    \/ CalDeliver

\* The calendar twin with tool calls and bus deliveries.
SpecCalBus == InitCal /\ [][NextCalBus]_vars

\* C34, for the calendar twin: a delivery whose payload carries the id of an
\* existing event creates no event; it updates or cancels that event.
C34_KnownIdNeverCreates ==
    [][(/\ cal_last'.op \in {"deliver.update", "deliver.cancel", "deliver.create"}
        /\ cal_last'.id \in DOMAIN cal_events)
          => /\ DOMAIN cal_events' = DOMAIN cal_events
             /\ cal_event_seq' = cal_event_seq]_vars

-----------------------------------------------------------------------------
(* C35, C36: versions and responses of calendar events *)

CalWrites == {"update_event", "cancel_event", "accept", "decline"}

\* C35: every successful update_event, cancel_event, accept or decline that
\* changes an event record increases the event's version by 1 and strictly
\* increases its updated_ms.
C35_WritesBumpVersion ==
    [][(/\ cal_last'.op \in CalWrites
        /\ cal_last'.ok
        /\ cal_events'[cal_last'.id] # cal_events[cal_last'.id])
          => /\ cal_events'[cal_last'.id].version
                   = cal_events[cal_last'.id].version + 1
             /\ cal_events'[cal_last'.id].updated_ms
                   > cal_events[cal_last'.id].updated_ms]_vars

\* C36: accept and decline succeed only for one of the event's attendees;
\* for anyone else, an event without attendees included, the call is
\* rejected and no response is recorded.
C36_OnlyAttendeesRespond ==
    [][cal_last'.op \in {"accept", "decline"}
          => LET evt == cal_events[cal_last'.id]
                 now == cal_events'[cal_last'.id]
             IN /\ cal_last'.id \in DOMAIN cal_events =>
                      \A a \in DOMAIN now.responses :
                          (a \notin DOMAIN evt.responses
                           \/ now.responses[a] # evt.responses[a])
                             => InSeq(a, evt.attendees)
                /\ ~cal_last'.ok => cal_events' = cal_events]_vars

-----------------------------------------------------------------------------
(* C37: the error code of a forbidden transition *)

\* The last invocation was a tickets.transition that reached the handler
\* with a target status the table forbids for the ticket's status.
ForbiddenTransitionRun ==
    /\ Invoked
    /\ c_last.tool = "tickets.transition"
    /\ c_last.action = "allow"
    /\ c_last.cache_hit # "true"
    /\ c_last.payload.id \in DOMAIN c_last.pre.twin.tickets
    /\ ~TransitionAllowed(c_last.pre.twin.tickets[c_last.payload.id].status,
                          StripLower(c_last.payload.arg))

\* C37: a tickets.transition request that the transition table forbids
\* fails with the error code invalid_transition reported to the caller
\* through the connector runtime.
C37_InvalidTransitionCode ==
    ForbiddenTransitionRun => c_last.error = "invalid_transition"

-----------------------------------------------------------------------------
(* C38: a rejected call and the twin *)

\* The step is a create, or an update of a stored ticket, that was
\* rejected: the only reason left is an invalid priority.
RejectedForArgument ==
    /\ <<tickets, metadata, ticket_seq, tk_clock_ms, tk_last>>'
          # <<tickets, metadata, ticket_seq, tk_clock_ms, tk_last>>
    /\ ~tk_last'.ok
    /\ \/ tk_last'.op = "create"
       \/ tk_last'.op = "update" /\ tk_last'.id \in DOMAIN tickets

\* C38: a tickets call that is rejected for an invalid argument leaves the
\* twin unchanged: no ticket is added, no field of a stored ticket changes,
\* and the id the next create takes is the one it would have taken.
C38_RejectedCallLeavesTwin ==
    [][RejectedForArgument =>
          /\ tickets' = tickets
          /\ ticket_seq' = ticket_seq]_vars

-----------------------------------------------------------------------------
(* Redaction of receipt payloads (vei/connectors/redaction.py) *)

\* A text is a sequence of words; the words the three patterns match.
EmailWords == {"ann@example.com"}

PhoneWords == {"415-555-1234"}

KeyWords == {"sk_abcdefgh1234"}

\* pattern.sub(replacement, text)
Sub(words, replacement, text) ==
    [i \in DOMAIN text |-> IF text[i] \in words THEN replacement ELSE text[i]]

\* redact_text(value)
RedactText(text) ==
    Sub(KeyWords, "[REDACTED_KEY]",
        Sub(PhoneWords, "[REDACTED_PHONE]",
            Sub(EmailWords, "[REDACTED_EMAIL]", text)))

\* Values of a payload: a string, a value of another scalar type, a list
\* or tuple of values, a mapping from strings to values.
PStr(text) == [t |-> "str", s |-> text, n |-> 0, kids |-> << >>]

PInt(n) == [t |-> "int", s |-> << >>, n |-> n, kids |-> << >>]

PSeq(kind, items) ==
    [t |-> kind, s |-> << >>, n |-> 0,
     kids |-> [i \in DOMAIN items |-> [k |-> << >>, v |-> items[i]]]]

PDict(pairs) == [t |-> "dict", s |-> << >>, n |-> 0, kids |-> pairs]

Pair(key, value) == [k |-> key, v |-> value]

\* redact_payload(value): str(k) keeps a string key as it is.
RECURSIVE RedactPayload(_)
RedactPayload(value) ==
    CASE value.t = "dict" ->
            [value EXCEPT !.kids =
                [i \in DOMAIN @ |-> Pair(@[i].k, RedactPayload(@[i].v))]]
      [] value.t \in {"list", "tuple"} ->
            [value EXCEPT !.t = "list",
                          !.kids = [i \in DOMAIN @ |-> Pair(@[i].k, RedactPayload(@[i].v))]]
      [] value.t = "str" -> [value EXCEPT !.s = RedactText(@)]
      [] OTHER -> value

\* CalendarSim._event_payload(evt) of EVT-1 with the attendees and the
\* responses given, fields without text left out.
EventPayload(attendees, responses) ==
    PDict(<<Pair(<<"event_id">>, PStr(<<"EVT-1">>)),
            Pair(<<"title">>, PStr(<<"sync">>)),
            Pair(<<"attendees">>,
                 PSeq("list", [i \in DOMAIN attendees |-> PStr(<<attendees[i]>>)])),
            Pair(<<"version">>, PInt(1)),
            Pair(<<"responses">>,
                 PDict([i \in DOMAIN responses |->
                           Pair(<<responses[i]>>, PStr(<<"accepted">>))]))>>)

\* request.payload of calendar.accept, calendar.create_event,
\* calendar.list_events and tickets.create calls.
RequestPayloads ==
    {PDict(<<Pair(<<"event_id">>, PStr(<<"EVT-1">>)),
             Pair(<<"attendee">>, PStr(<<"ann@example.com">>))>>),
     PDict(<<Pair(<<"title">>, PStr(<<"call", "415-555-1234">>)),
             Pair(<<"start_ms">>, PInt(1)),
             Pair(<<"attendees">>, PSeq("tuple", <<PStr(<<"ann@example.com">>)>>))>>),
     PDict(<< >>),
     PDict(<<Pair(<<"title">>, PStr(<<"rotate", "sk_abcdefgh1234">>))>>)}

\* result.raw of the calendar adapter: the result of accept, and the
\* events of list_events before and after the attendee has accepted.
RawResults ==
    {PDict(<<Pair(<<"ok">>, PInt(1)),
             Pair(<<"result">>,
                  PDict(<<Pair(<<"event_id">>, PStr(<<"EVT-1">>)),
                          Pair(<<"attendee">>, PStr(<<"ann@example.com">>)),
                          Pair(<<"status">>, PStr(<<"accepted">>))>>))>>),
     PDict(<<Pair(<<"ok">>, PInt(1)),
             Pair(<<"events">>,
                  PSeq("list", <<EventPayload(<<"ann@example.com">>, << >>)>>)),
             Pair(<<"count">>, PInt(1))>>),
     PDict(<<Pair(<<"ok">>, PInt(1)),
             Pair(<<"events">>,
                  PSeq("list", <<EventPayload(<<"ann@example.com">>,
                                              <<"ann@example.com">>)>>)),
             Pair(<<"count">>, PInt(1))>>)}

\* The response payload of a call the gate stopped.
PolicyPayload == PDict(<<Pair(<<"policy">>, PStr(<<"deny">>))>>)

MaxRedactReceipts == 2

\* ConnectorRuntime._record_receipt: the payloads of the receipt.
RecordRedacted ==
    /\ Len(rd_receipts) < MaxRedactReceipts
    /\ \E request \in RequestPayloads, raw \in RawResults \cup {PolicyPayload} :
          rd_receipts' = Append(rd_receipts,
              [request_payload |-> RedactPayload(request),
               response_payload |-> RedactPayload(raw)])
    /\ UNCHANGED notRedact

InitRedact ==
    /\ rd_receipts = << >>
    /\ IdleTwin
    /\ IdleConn
    /\ IdleBus
    /\ IdlePage
    /\ IdleErp
    /\ IdleButRedact

NextRedact == RecordRedacted

SpecRedact == InitRedact /\ [][NextRedact]_vars

Sensitive(text) ==
    \E i \in DOMAIN text : text[i] \in EmailWords \cup PhoneWords \cup KeyWords

\* An email address, phone number or key somewhere in the value, in a
\* string or in a mapping key, at any depth.
RECURSIVE Leaks(_)
Leaks(value) ==
    \/ Sensitive(value.s)
    \/ \E i \in DOMAIN value.kids :
          Sensitive(value.kids[i].k) \/ Leaks(value.kids[i].v)

\* C39: no stored receipt contains an email address, phone number or
\* API-key-shaped token anywhere in its request or response payload,
\* neither in values nor in mapping keys at any nesting depth.
C39_ReceiptsHoldNoSecrets ==
    \A i \in DOMAIN rd_receipts :
        /\ ~Leaks(rd_receipts[i].request_payload)
        /\ ~Leaks(rd_receipts[i].response_payload)

-----------------------------------------------------------------------------
(* C40: reads and the twin *)

\* What the results of a later mutation are computed from: the documents
\* with their version and updated_ms, the clock that stamps updated_ms and
\* the sequence the next id is taken from.
DocsTwinState == <<docs_docs, docs_clock_ms, docs_seq>>

\* C40: a read leaves the state of the twin unchanged, so that reads made
\* between two mutations do not change the updated_ms, version or id the
\* later mutation produces.
C40_ReadsLeaveTwin ==
    [][docs_last'.op = "read" => DocsTwinState' = DocsTwinState]_vars

====
